---------------------------- MODULE Spec2Model ----------------------------
(***************************************************************************)
(* Execution engine of flow-like: InternalNode::trigger,                   *)
(* InternalNode::trigger_with_dependencies, the dependency walker          *)
(* (trigger_missing_dependencies / exec_deps_from_map), the single node    *)
(* runner run_node_logic_only and the error router handle_error of         *)
(* packages/core/src/flow/execution/internal_node.rs.                      *)
(*                                                                         *)
(* The async functions of the source call each other; the model keeps the  *)
(* call chain as a stack of frames.  The top frame is the function that    *)
(* is executing, its pc names the statement it is at, and ret holds the    *)
(* value the last returned callee handed back.                             *)
(***************************************************************************)
EXTENDS Naturals, Integers, Sequences, FiniteSets, TLC

(***************************************************************************)
(* The board.  Nodes are identified by their id string.  A node with an    *)
(* execution pin is impure, a node without one is pure (is_pure).          *)
(***************************************************************************)
Impure == {"a", "b", "c"}
PureN  == {"p", "q"}
Nodes  == Impure \cup PureN

\* Largest number of edges and pin markers on a board.
MaxEdges == 3

None == "none"

(***************************************************************************)
(* A board is a set of items:                                              *)
(*   <<"data", n, m>>  a non-execution input pin of n depends_on an        *)
(*                     output pin of m;                                    *)
(*   <<"exec", n, m>>  an execution output pin of n (one pin per item) is  *)
(*                     connected_to an execution input pin of m;           *)
(*   <<"err", n, m>>   n's auto_handle_error output is connected_to an     *)
(*                     execution input pin of m;                           *)
(*   <<"pin", n, k>>   n has a pin named auto_handle_error with no node    *)
(*                     connected to it: k = "exec" an execution output,    *)
(*                     k = "inert" a pin that is not an execution output   *)
(*                     (activate_exec_pin fails on it, it is never true).  *)
(* Only impure nodes own execution pins.                                   *)
(***************************************************************************)
Cand ==
    ({"data"} \X Nodes \X Nodes)
      \cup ({"exec"} \X Impure \X Impure)
      \cup ({"err"} \X Impure \X Impure)
      \cup ({"pin"} \X Impure \X {"exec", "inert"})

\* Nodes the engine can get to over the items of B: exec and error targets,
\* and the pure producers the dependency resolver follows.
Targets(B) ==
    {e[3] : e \in {x \in B : x[1] \in {"exec", "err"}
                              \/ (x[1] = "data" /\ x[3] \in PureN)}}

\* A node has at most one pin named auto_handle_error.
WellFormed(B) ==
    \A n \in Impure :
        LET wired == \E m \in Impure : <<"err", n, m>> \in B
        IN  /\ ~(<<"pin", n, "inert">> \in B /\ (wired \/ <<"pin", n, "exec">> \in B))
            /\ ~(<<"pin", n, "exec">> \in B /\ wired)

Ext(t, B) == {c \in Cand \ B : c[2] \in {t} \cup Targets(B) /\ WellFormed(B \cup {c})}

\* Every board of at most k items all of whose items hang off the triggered
\* node t (items the engine cannot get to do not change what it does).
RECURSIVE BoardsUpTo(_, _)
BoardsUpTo(t, k) ==
    IF k = 0 THEN {{}}
    ELSE LET prev == BoardsUpTo(t, k - 1)
         IN  prev \cup UNION {{B \cup {c} : c \in Ext(t, B)} : B \in prev}

VARIABLES
    board,      \* the items of the board (fixed during a run)
    trig,       \* the triggered node
    mode,       \* "trigger" or "twd" (trigger_with_dependencies)
    ws,         \* with_successors
    nstate,     \* node -> NodeState
    execOn,     \* the exec items whose output pin holds true
    errOn,      \* the nodes whose auto_handle_error pin holds true
    errStr,     \* node -> value of its auto_handle_error_string pin
    guard,      \* the recursion_guard handed to the entry point
    lguard,     \* local_guard of the successor loop
    frames,     \* the call chain, innermost last
    ret,        \* what the last callee returned
    result,     \* what the entry point returned to its caller
    trace       \* the logic calls so far: start and end events

vars == <<board, trig, mode, ws, nstate, execOn, errOn, errStr, guard, lguard,
          frames, ret, result, trace>>

(***************************************************************************)
(* Graph queries of InternalNode.                                          *)
(***************************************************************************)
\* InternalNode::is_pure: no pin of the node is an execution pin.
is_pure(n) == n \notin Impure

\* variant that is not the code's: the producers are not asked is_pure
pure_parents_any_producer(n) ==
    {m \in Nodes : <<"data", n, m>> \in board}

\* pure_parents_for_memo: the pure nodes that own a pin one of n's
\* non-execution inputs depends on, each once.
pure_parents_for_memo(n) ==
    {m \in Nodes : <<"data", n, m>> \in board /\ is_pure(m)}

\* The precomputed map handed to trigger_with_dependencies: node id -> its
\* parent nodes, built by the host from the same pins.
dependencies == [n \in Nodes |-> pure_parents_for_memo(n)]

\* Which auto_handle_error pin the node has: "exec", "inert" or "none".
ErrPinKind(n) ==
    IF <<"pin", n, "exec">> \in board \/ (\E m \in Nodes : <<"err", n, m>> \in board)
    THEN "exec"
    ELSE IF <<"pin", n, "inert">> \in board THEN "inert" ELSE "none"

\* variant that is not the code's: filter_valid is ignored
get_connected_exec_unfiltered(n, filter_valid) ==
    {m \in Nodes : <<"exec", n, m>> \in board}
      \cup {m \in Nodes : <<"err", n, m>> \in board /\ n \in errOn}

\* InternalNode::get_connected_exec: the nodes fed by n's execution outputs
\* (auto_handle_error is one of them); with filter_valid only by the outputs
\* whose value evaluates to true.
get_connected_exec(n, filter_valid) ==
    {m \in Nodes : <<"exec", n, m>> \in board
                   /\ (filter_valid => <<"exec", n, m>> \in execOn)}
      \cup {m \in Nodes : <<"err", n, m>> \in board
                          /\ (filter_valid => n \in errOn)}

\* InternalNode::get_error_handled_nodes, with `on` the nodes whose
\* auto_handle_error holds true: fails when the pin is missing, not active or
\* not an execution output, else the nodes connected to auto_handle_error.
get_error_handled_nodes(n, on) ==
    IF ErrPinKind(n) = "none" \/ n \notin on \/ ErrPinKind(n) # "exec"
    THEN [ok |-> FALSE, nodes |-> {}]
    ELSE [ok |-> TRUE, nodes |-> {m \in Nodes : <<"err", n, m>> \in board}]

\* ExecutionContext::activate_exec_pin("auto_handle_error") of node n: sets
\* the pin to true when it is an execution output, fails otherwise.
activate_exec_pin(n, on) == IF ErrPinKind(n) = "exec" THEN on \cup {n} ELSE on

\* ExecutionContext::set_pin_value("auto_handle_error_string", v) of node n:
\* fails when the node has no such pin (it comes with auto_handle_error).
set_pin_value(n, v, strs) ==
    IF ErrPinKind(n) = "exec" THEN [strs EXCEPT ![n] = v] ELSE strs

\* The orders in which a hash map or a pin's edge list can yield the set S.
Orders(S) ==
    {o \in [1..Cardinality(S) -> S] : \A i, j \in 1..Cardinality(S) : o[i] = o[j] => i = j}

(***************************************************************************)
(* Values.                                                                 *)
(***************************************************************************)
OkRet        == [t |-> "ok", e |-> "", id |-> ""]
ErrRet(e, n) == [t |-> "err", e |-> e, id |-> n]
BoolRet(b)   == [t |-> "bool", e |-> IF b THEN "true" ELSE "false", id |-> ""]
NoRet        == [t |-> "none", e |-> "", id |-> ""]

\* A string written to a pin: its text and, for a formatted error, the node id.
Msg(text, id) == [text |-> text, id |-> id]
NoMsg         == Msg("", "")
\* format!("{:?}", e) of an InternalNodeError
DebugFmt(r)   == Msg(r.e, r.id)

\* Option<AHashSet<String>>
NoGuard == [some |-> FALSE, ids |-> {}]
GuardContains(G, id) == G.some /\ id \in G.ids

(***************************************************************************)
(* Frames.                                                                 *)
(***************************************************************************)
\* role: what the frame's node is to the entry point: "self" the triggered
\* node, "succ" an exec successor, "handler" an error handler, "hsucc" an exec
\* successor of a handler, "dep" a dependency run by a walk.  g: which guard
\* the frame was handed, "top" (recursion_guard) or "local" (local_guard).
\* g0 and n0 remember the guard and the length of the trace at a walk's start.
Frame(fn, pc, n, role, g) ==
    [fn |-> fn, pc |-> pc, node |-> n, role |-> role, g |-> g, form |-> "resolver",
     msg |-> NoMsg, pend |-> NoRet, stack |-> <<>>, scheduled |-> {},
     visiting |-> {}, connected |-> <<>>, handler |-> None, seen |-> {},
     cur |-> None, sub |-> None, g0 |-> {}, n0 |-> 0]

Top == frames[Len(frames)]
At(fn, pc) == frames # <<>> /\ Top.fn = fn /\ Top.pc = pc

Goto(f)    == frames' = [frames EXCEPT ![Len(frames)] = f]
Call(f, c) == frames' = Append([frames EXCEPT ![Len(frames)] = f], c)
Return(v)  ==
    /\ frames' = SubSeq(frames, 1, Len(frames) - 1)
    /\ ret' = v
    /\ result' = IF Len(frames) = 1 THEN v ELSE result

GuardOf(g) == IF g = "top" THEN guard ELSE lguard
SetGuard(g, G) ==
    IF g = "top" THEN guard' = G /\ lguard' = lguard
                 ELSE lguard' = G /\ guard' = guard

\* An entry of the trace: "start", "end_ok", "end_err" bracket a logic call;
\* "skip" a node found in the guard; "deps_fail", "cycle" a failed walk;
\* "he_enter", "he_ok", "he_err" bracket handle_error (r: what it returned).
\* out: for "end_ok", the exec outputs the logic left true.
Event(ev, n, role, r) == [ev |-> ev, node |-> n, role |-> role, r |-> r, out |-> {}]
\* push_sub_context of the sub-context of node n, run in role r by a
\* dependency walk or by the error chain
Attach(n, r) == Event("attach", n, r, NoRet)

Log(e) == trace' = Append(trace, e)

set_state(n, s) == nstate' = [nstate EXCEPT ![n] = s]

(***************************************************************************)
(* NodeLogic::run of node n: it fails or succeeds; a successful run leaves *)
(* the node's execution outputs as the logic set them (act: those set to   *)
(* true).                                                                  *)
(***************************************************************************)
OutItems(n) == {e \in board : e[1] = "exec" /\ e[2] = n}

logic_run(n, ok, act) ==
    execOn' = IF ok THEN (execOn \ OutItems(n)) \cup act ELSE execOn

\* Why a logic call fails: an error of its own, or the cancellation of the
\* context it runs in.  Either way NodeLogic::run returns Err.
Causes == {"Failed", "Cancelled"}
LogicErr(why) == [t |-> "err", e |-> why, id |-> ""]

(***************************************************************************)
(* run_node_logic_only(ctx, recursion_guard)                               *)
(***************************************************************************)
RunFrame(n, role, g) == Frame("run", "enter", n, role, g)

\* variant that is not the code's: the guard is filled but not looked at
RunEnterNoCheck ==
    /\ At("run", "enter")
    /\ LET n  == Top.node
           G0 == GuardOf(Top.g)
           G1 == IF G0.some THEN G0 ELSE [some |-> TRUE, ids |-> {}]
       IN  /\ set_state(n, "Running")
           /\ SetGuard(Top.g, [G1 EXCEPT !.ids = @ \cup {n}])
           /\ Log(Event("start", n, Top.role, NoRet))
           /\ Goto([Top EXCEPT !.pc = "logic"])
           /\ UNCHANGED <<ret, result>>
    /\ UNCHANGED <<board, trig, mode, ws, execOn, errOn, errStr>>

\* lines 149-165: state Running, create the guard, skip a node already in it
RunEnter ==
    /\ At("run", "enter")
    /\ LET n  == Top.node
           G0 == GuardOf(Top.g)
           G1 == IF G0.some THEN G0 ELSE [some |-> TRUE, ids |-> {}]
       IN  /\ set_state(n, "Running")
           /\ IF n \in G1.ids
              THEN /\ SetGuard(Top.g, G1)
                   /\ Log(Event("skip", n, Top.role, NoRet))
                   /\ Return(OkRet)
              ELSE /\ SetGuard(Top.g, [G1 EXCEPT !.ids = @ \cup {n}])
                   /\ Log(Event("start", n, Top.role, NoRet))
                   /\ Goto([Top EXCEPT !.pc = "logic"])
                   /\ UNCHANGED <<ret, result>>
    /\ UNCHANGED <<board, trig, mode, ws, execOn, errOn, errStr>>

\* lines 167-194: the logic call and the state it leaves
RunLogic ==
    /\ At("run", "logic")
    /\ \E ok \in BOOLEAN, act \in SUBSET OutItems(Top.node), why \in Causes :
         LET n == Top.node
         IN  /\ (~ok => act = {})
             /\ (ok => why = "Failed")
             /\ logic_run(n, ok, act)
             /\ set_state(n, IF ok THEN "Success" ELSE "Error")
             /\ Log(IF ok THEN [Event("end_ok", n, Top.role, NoRet) EXCEPT !.out = act]
                       ELSE Event("end_err", n, Top.role, LogicErr(why)))
             /\ Return(IF ok THEN OkRet ELSE ErrRet("ExecutionFailed", n))
    /\ UNCHANGED <<board, trig, mode, ws, errOn, errStr, guard, lguard>>

(***************************************************************************)
(* The dependency walker: InternalNode::trigger_missing_dependencies       *)
(* (form "resolver") and exec_deps_from_map (form "map").  The two differ  *)
(* in the parent lookup only.                                              *)
(***************************************************************************)
DepsFrame(n, role, g, form) ==
    [Frame("deps", "seed", n, role, g) EXCEPT !.form = form]

Parents(form, n) ==
    IF form = "resolver" THEN pure_parents_for_memo(n) ELSE dependencies[n]

Entries(ord, phase) == [i \in 1..Len(ord) |-> <<ord[i], phase>>]
Butlast(st) == SubSeq(st, 1, Len(st) - 1)
Last(st) == st[Len(st)]

\* lines 708-730 (49-61): seed the stack with the node's parents
DepsSeed ==
    /\ At("deps", "seed")
    /\ \E ord \in Orders(Parents(Top.form, Top.node)) :
         Goto([Top EXCEPT !.pc = "loop", !.stack = Entries(ord, "Enter"),
                          !.g0 = GuardOf(Top.g).ids, !.n0 = Len(trace)])
    /\ UNCHANGED <<board, trig, mode, ws, nstate, execOn, errOn, errStr, guard,
                   lguard, ret, result, trace>>

\* Phase::Enter variants that are not the code's: the node's Exit entry above
\* its parents, and the node's Exit entry without its parents
EnterPushExitOnTop(n, ord) == Entries(ord, "Enter") \o <<<<n, "Exit">>>>
EnterPushNoParents(n, ord) == <<<<n, "Exit">>>>

\* lines 748-761 (78-92): what Phase::Enter pushes for node n whose parents
\* come in the order ord: the node again as Exit, its parents above it
EnterPush(n, ord) == <<<<n, "Exit">>>> \o Entries(ord, "Enter")

\* Phase::Enter variant that is not the code's: a parent that is on the
\* visiting set is not pushed (a back edge is passed over in silence)
DepsEnterSkipsVisiting ==
    /\ At("deps", "loop")
    /\ Top.stack # <<>>
    /\ Last(Top.stack)[2] = "Enter"
    /\ LET n    == Last(Top.stack)[1]
           rest == Butlast(Top.stack)
       IN  IF n \in Top.scheduled
           THEN /\ Goto([Top EXCEPT !.stack = rest])
                /\ UNCHANGED <<ret, result, trace>>
           ELSE IF n \in Top.visiting
           THEN /\ Log(Event("cycle", Top.node, Top.role, NoRet))
                /\ Return(BoolRet(FALSE))
           ELSE /\ \E ord \in Orders(Parents(Top.form, n)
                                        \ (Top.scheduled \cup Top.visiting \cup {n})) :
                     Goto([Top EXCEPT !.visiting = @ \cup {n},
                                      !.stack = rest \o EnterPush(n, ord)])
                /\ UNCHANGED <<ret, result, trace>>
    /\ UNCHANGED <<board, trig, mode, ws, nstate, execOn, errOn, errStr, guard, lguard>>

\* Phase::Enter variant that is not the code's: a node met on the visiting
\* set is looked at again and again (the entry stays on the stack)
DepsEnterSpinsOnCycle ==
    /\ At("deps", "loop")
    /\ Top.stack # <<>>
    /\ Last(Top.stack)[2] = "Enter"
    /\ LET n    == Last(Top.stack)[1]
           rest == Butlast(Top.stack)
       IN  IF n \in Top.scheduled
           THEN /\ Goto([Top EXCEPT !.stack = rest])
                /\ UNCHANGED <<ret, result, trace>>
           ELSE IF n \in Top.visiting
           THEN UNCHANGED <<frames, ret, result, trace>>
           ELSE /\ \E ord \in Orders(Parents(Top.form, n) \ Top.scheduled) :
                     Goto([Top EXCEPT !.visiting = @ \cup {n},
                                      !.stack = rest \o EnterPush(n, ord)])
                /\ UNCHANGED <<ret, result, trace>>
    /\ UNCHANGED <<board, trig, mode, ws, nstate, execOn, errOn, errStr, guard, lguard>>

\* lines 736-771 (67-93): Phase::Enter
DepsEnter ==
    /\ At("deps", "loop")
    /\ Top.stack # <<>>
    /\ Last(Top.stack)[2] = "Enter"
    /\ LET n    == Last(Top.stack)[1]
           rest == Butlast(Top.stack)
       IN  IF n \in Top.scheduled
           THEN /\ Goto([Top EXCEPT !.stack = rest])
                /\ UNCHANGED <<ret, result, trace>>
           ELSE IF n \in Top.visiting
           THEN /\ Log(Event("cycle", Top.node, Top.role, NoRet))
                /\ Return(BoolRet(FALSE))
           ELSE /\ \E ord \in Orders(Parents(Top.form, n) \ Top.scheduled) :
                     Goto([Top EXCEPT !.visiting = @ \cup {n},
                                      !.stack = rest \o EnterPush(n, ord)])
                /\ UNCHANGED <<ret, result, trace>>
    /\ UNCHANGED <<board, trig, mode, ws, nstate, execOn, errOn, errStr, guard, lguard>>

\* lines 772-805 (94-125): Phase::Exit up to the call of run_node_logic_only
DepsExit ==
    /\ At("deps", "loop")
    /\ Top.stack # <<>>
    /\ Last(Top.stack)[2] = "Exit"
    /\ LET n    == Last(Top.stack)[1]
           rest == Butlast(Top.stack)
           f    == [Top EXCEPT !.stack = rest, !.visiting = @ \ {n}]
       IN  IF n \in Top.scheduled
           THEN Goto(f)
           ELSE IF GuardContains(GuardOf(Top.g), n)
           THEN Goto([f EXCEPT !.scheduled = @ \cup {n}])
           ELSE Call([f EXCEPT !.pc = "ran", !.cur = n], RunFrame(n, "dep", Top.g))
    /\ UNCHANGED <<board, trig, mode, ws, nstate, execOn, errOn, errStr, guard,
                   lguard, ret, result, trace>>

\* lines 806-819 (127-137): after the dependency ran: its sub-context is
\* attached, then a failure ends the walk
DepsAfterRun ==
    /\ At("deps", "ran")
    /\ IF ret.t = "err"
       THEN /\ trace' = trace \o <<Attach(Top.cur, "dep"),
                                    Event("deps_fail", Top.node, Top.role, NoRet)>>
            /\ Return(BoolRet(FALSE))
       ELSE /\ Goto([Top EXCEPT !.pc = "loop", !.scheduled = @ \cup {Top.cur}])
            /\ Log(Attach(Top.cur, "dep"))
            /\ UNCHANGED <<ret, result>>
    /\ UNCHANGED <<board, trig, mode, ws, nstate, execOn, errOn, errStr, guard, lguard>>

\* line 824 (142): the stack is empty
DepsDone ==
    /\ At("deps", "loop")
    /\ Top.stack = <<>>
    /\ Return(BoolRet(TRUE))
    /\ UNCHANGED <<board, trig, mode, ws, nstate, execOn, errOn, errStr, guard,
                   lguard, trace>>

(***************************************************************************)
(* InternalNode::handle_error(context, error, recursion_guard)             *)
(***************************************************************************)
HeFrame(n, role, g, msg) == [Frame("he", "enter", n, role, g) EXCEPT !.msg = msg]

ExecutionFailed(n) == ErrRet("ExecutionFailed", n)

\* variant that is not the code's: an empty handler list is not an error
NoHandlersOnlyOnErr(res) == ~res.ok

\* lines 837-855: the handler lookup failed, or it found no node
NoHandlers(res) == ~res.ok \/ res.nodes = {}

\* variant that is not the code's: a failed chain names the handler
ChainErrorOfHandler(f) == [t |-> "err", e |-> "ExecutionFailed", id |-> f.handler]

\* lines 870, 881, 894, 924, 939, 960: what a failed chain returns; f is the
\* frame of handle_error, f.node the node of its context
ChainError(f) == ExecutionFailed(f.node)

\* lines 832-855: activate the error pins, fetch the handlers
HeEnter ==
    /\ At("he", "enter")
    /\ LET n   == Top.node
           on  == activate_exec_pin(n, errOn)
           res == get_error_handled_nodes(n, on)
           ent == Event("he_enter", n, Top.role, NoRet)
       IN  /\ errOn' = on
           /\ errStr' = set_pin_value(n, Top.msg, errStr)
           /\ IF NoHandlers(res)
              THEN /\ trace' = trace \o <<ent, Event("he_err", n, Top.role, ExecutionFailed(n))>>
                   /\ Return(ExecutionFailed(n))
              ELSE /\ \E ord \in Orders(res.nodes) :
                        Goto([Top EXCEPT !.pc = "handler", !.connected = ord])
                   /\ Log(ent)
                   /\ UNCHANGED <<ret, result>>
    /\ UNCHANGED <<board, trig, mode, ws, nstate, execOn, guard, lguard>>

\* lines 858-862 and 968-973: the next handler, or the end of the chain
HeNextHandler ==
    /\ At("he", "handler")
    /\ IF Top.connected = <<>>
       THEN /\ set_state(Top.node, "Error")
            /\ Log(Event("he_ok", Top.node, Top.role, OkRet))
            /\ Return(OkRet)
       ELSE LET h == Head(Top.connected)
            IN  /\ Call([Top EXCEPT !.pc = "hdeps", !.handler = h,
                                    !.connected = Tail(Top.connected)],
                        DepsFrame(h, "handler", Top.g, "resolver"))
                /\ UNCHANGED <<nstate, ret, result, trace>>
    /\ UNCHANGED <<board, trig, mode, ws, execOn, errOn, errStr, guard, lguard>>

\* lines 862-874: the handler's dependencies ran
HeAfterHandlerDeps ==
    /\ At("he", "hdeps")
    /\ IF ret.e = "false"
       THEN /\ errStr' = set_pin_value(Top.handler,
                   Msg("Failed to trigger missing dependencies for error handler", ""),
                   errStr)
            /\ trace' = trace \o <<Attach(Top.handler, "handler"),
                                    Event("he_err", Top.node, Top.role, ChainError(Top))>>
            /\ Return(ChainError(Top))
       ELSE /\ Call([Top EXCEPT !.pc = "hrun"], RunFrame(Top.handler, "handler", Top.g))
            /\ UNCHANGED <<errStr, ret, result, trace>>
    /\ UNCHANGED <<board, trig, mode, ws, nstate, execOn, errOn, guard, lguard>>

\* lines 874-899: the handler ran; collect its exec successors
HeAfterHandlerRun ==
    /\ At("he", "hrun")
    /\ IF ret.t = "err"
       THEN /\ errStr' = set_pin_value(Top.handler, DebugFmt(ret), errStr)
            /\ trace' = trace \o <<Attach(Top.handler, "handler"),
                                    Event("he_err", Top.node, Top.role, ChainError(Top))>>
            /\ Return(ChainError(Top))
       ELSE /\ \E ord \in Orders(get_connected_exec(Top.handler, TRUE)) :
                 Goto([Top EXCEPT !.pc = "succ", !.stack = ord, !.seen = {}])
            /\ UNCHANGED <<errStr, ret, result, trace>>
    /\ UNCHANGED <<board, trig, mode, ws, nstate, execOn, errOn, guard, lguard>>

\* lines 901-909: pop the next exec successor of the handler
HeSuccPop ==
    /\ At("he", "succ")
    /\ Top.stack # <<>>
    /\ LET next == Last(Top.stack)
           f    == [Top EXCEPT !.stack = Butlast(Top.stack)]
       IN  IF next \in Top.seen
           THEN Goto(f)
           ELSE Call([f EXCEPT !.pc = "sdeps", !.seen = @ \cup {next}, !.cur = next],
                     DepsFrame(next, "hsucc", Top.g, "resolver"))
    /\ UNCHANGED <<board, trig, mode, ws, nstate, execOn, errOn, errStr, guard,
                   lguard, ret, result, trace>>

\* lines 966-970: the handler's successors are done; the handler's own
\* sub-context is attached now
HeSuccDone ==
    /\ At("he", "succ")
    /\ Top.stack = <<>>
    /\ Goto([Top EXCEPT !.pc = "handler"])
    /\ Log(Attach(Top.handler, "handler"))
    /\ UNCHANGED <<board, trig, mode, ws, nstate, execOn, errOn, errStr, guard,
                   lguard, ret, result>>

\* lines 909-927: the successor's dependencies ran
HeAfterSuccDeps ==
    /\ At("he", "sdeps")
    /\ IF ret.e = "false"
       THEN /\ errStr' = set_pin_value(Top.handler, Msg("error chain aborted", ""),
                   set_pin_value(Top.cur,
                       Msg("Failed to trigger successor dependencies (error chain)", ""),
                       errStr))
            /\ trace' = trace \o <<Attach(Top.cur, "hsucc"), Attach(Top.handler, "handler"),
                                    Event("he_err", Top.node, Top.role, ChainError(Top))>>
            /\ Return(ChainError(Top))
       ELSE /\ Call([Top EXCEPT !.pc = "srun"], RunFrame(Top.cur, "hsucc", Top.g))
            /\ UNCHANGED <<errStr, ret, result, trace>>
    /\ UNCHANGED <<board, trig, mode, ws, nstate, execOn, errOn, guard, lguard>>

\* lines 927-965: the successor ran; push its exec successors
HeAfterSuccRun ==
    /\ At("he", "srun")
    /\ IF ret.t = "err"
       THEN /\ errStr' = set_pin_value(Top.handler, Msg("error chain aborted", ""),
                   set_pin_value(Top.cur, DebugFmt(ret), errStr))
            /\ trace' = trace \o <<Attach(Top.cur, "hsucc"), Attach(Top.handler, "handler"),
                                    Event("he_err", Top.node, Top.role, ChainError(Top))>>
            /\ Return(ChainError(Top))
       ELSE /\ \E ord \in Orders(get_connected_exec(Top.cur, TRUE)) :
                 Goto([Top EXCEPT !.pc = "succ", !.stack = @ \o ord])
            /\ Log(Attach(Top.cur, "hsucc"))
            /\ UNCHANGED <<errStr, ret, result>>
    /\ UNCHANGED <<board, trig, mode, ws, nstate, execOn, errOn, guard, lguard>>

(***************************************************************************)
(* InternalNode::trigger (fn "trigger", walks with the resolver) and       *)
(* InternalNode::trigger_with_dependencies (fn "twd", walks with the map). *)
(* The successor loops of the two are the same statements.                 *)
(***************************************************************************)
FormOf(fn) == IF fn = "trigger" THEN "resolver" ELSE "map"

\* variant that is not the code's: the outcome of handle_error is returned
\* as it is, so a chain that ran to its end turns the failure into Ok
AfterHandleErrorAsIs(fn) ==
    /\ At(fn, "he")
    /\ Return(ret)
    /\ IF ret.t # "err" /\ Top.cur # None
       THEN Log(Event("push", Top.cur, "ctx", NoRet))
       ELSE UNCHANGED trace
    /\ UNCHANGED <<board, trig, mode, ws, nstate, execOn, errOn, errStr, guard,
                   lguard>>

\* `handle_error(..).await?; return Err(..)`: a failed chain's error goes
\* to the caller at once, else the error the caller had prepared; in the
\* successor loop the successor's sub-context is attached in between
\* (push_sub_context, lines 1039-1040), so only when the chain did not fail.
AfterHandleError(fn) ==
    /\ At(fn, "he")
    /\ Return(IF ret.t = "err" THEN ret ELSE Top.pend)
    /\ IF ret.t # "err" /\ Top.cur # None
       THEN Log(Event("push", Top.cur, "ctx", NoRet))
       ELSE UNCHANGED trace
    /\ UNCHANGED <<board, trig, mode, ws, nstate, execOn, errOn, errStr, guard,
                   lguard>>

\* variant that is not the code's: the successor's dependencies are walked
\* under the guard of the entry point, not under a fresh one
SuccPopSharedGuard(fn) ==
    /\ At(fn, "succ")
    /\ Top.stack # <<>>
    /\ LET next == Last(Top.stack)
           f    == [Top EXCEPT !.stack = Butlast(Top.stack)]
       IN  IF next \in Top.seen
           THEN Goto(f) /\ UNCHANGED <<lguard, trace>>
           ELSE /\ lguard' = NoGuard
                /\ Log(Event("sub", next, "ctx", NoRet))
                /\ Call([f EXCEPT !.pc = "sdeps", !.seen = @ \cup {next}, !.cur = next],
                        DepsFrame(next, "succ", "top", FormOf(fn)))
    /\ UNCHANGED <<board, trig, mode, ws, nstate, execOn, errOn, errStr, guard,
                   ret, result>>

\* the successor loop: pop a target, skip it when seen, else give it a
\* sub-context (into_sub_context, logged as "sub") and a fresh local guard
\* and walk its dependencies
SuccPop(fn) ==
    /\ At(fn, "succ")
    /\ Top.stack # <<>>
    /\ LET next == Last(Top.stack)
           f    == [Top EXCEPT !.stack = Butlast(Top.stack)]
       IN  IF next \in Top.seen
           THEN Goto(f) /\ UNCHANGED <<lguard, trace>>
           ELSE /\ lguard' = NoGuard
                /\ Log(Event("sub", next, "ctx", NoRet))
                /\ Call([f EXCEPT !.pc = "sdeps", !.seen = @ \cup {next}, !.cur = next],
                        DepsFrame(next, "succ", "local", FormOf(fn)))
    /\ UNCHANGED <<board, trig, mode, ws, nstate, execOn, errOn, errStr, guard,
                   ret, result>>

\* the work stack is empty: Ok(())
SuccDone(fn) ==
    /\ At(fn, "succ")
    /\ Top.stack = <<>>
    /\ Return(OkRet)
    /\ UNCHANGED <<board, trig, mode, ws, nstate, execOn, errOn, errStr, guard,
                   lguard, trace>>

\* the successor's dependencies ran: route a failure, else run the successor
AfterSuccDeps(fn, text) ==
    /\ At(fn, "sdeps")
    /\ IF ret.e = "false"
       THEN Call([Top EXCEPT !.pc = "he", !.pend = ExecutionFailed(Top.node)],
                 HeFrame(Top.cur, "succ", "local", Msg(text, "")))
       ELSE Call([Top EXCEPT !.pc = "srun"], RunFrame(Top.cur, "succ", "local"))
    /\ UNCHANGED <<board, trig, mode, ws, nstate, execOn, errOn, errStr, guard,
                   lguard, ret, result, trace>>

\* variant that is not the code's: a failed successor does not end the walk
AfterSuccRunGoesOn(fn) ==
    /\ At(fn, "srun")
    /\ IF ret.t = "err"
       THEN /\ errOn' = activate_exec_pin(Top.cur, errOn)
            /\ errStr' = set_pin_value(Top.cur, DebugFmt(ret), errStr)
            /\ Goto([Top EXCEPT !.pc = "succ"])
            /\ UNCHANGED <<ret, result>>
       ELSE /\ \E ord \in Orders(get_connected_exec(Top.cur, TRUE)) :
                 Goto([Top EXCEPT !.pc = "succ", !.stack = @ \o ord])
            /\ UNCHANGED <<errOn, errStr, ret, result>>
    /\ Log(Event("push", Top.cur, "ctx", NoRet))
    /\ UNCHANGED <<board, trig, mode, ws, nstate, execOn, guard, lguard>>

\* the successor ran: on failure set its error pins and return, else push
\* its exec successors; on both paths the successor's sub-context is
\* attached to the context (push_sub_context, logged as "push")
AfterSuccRun(fn) ==
    /\ At(fn, "srun")
    /\ IF ret.t = "err"
       THEN /\ errOn' = activate_exec_pin(Top.cur, errOn)
            /\ errStr' = set_pin_value(Top.cur, DebugFmt(ret), errStr)
            /\ Return(ExecutionFailed(Top.node))
       ELSE /\ \E ord \in Orders(get_connected_exec(Top.cur, TRUE)) :
                 Goto([Top EXCEPT !.pc = "succ", !.stack = @ \o ord])
            /\ UNCHANGED <<errOn, errStr, ret, result>>
    /\ Log(Event("push", Top.cur, "ctx", NoRet))
    /\ UNCHANGED <<board, trig, mode, ws, nstate, execOn, guard, lguard>>

\* variant that is not the code's: with_successors is not looked at
SuccessorsAlways(fn) ==
    /\ \E ord \in Orders(get_connected_exec(Top.node, TRUE)) :
          Goto([Top EXCEPT !.pc = "succ", !.stack = ord, !.seen = {}])
    /\ UNCHANGED <<ret, result>>

\* the node itself succeeded: collect its successors, or return
Successors(fn) ==
    IF ws
    THEN /\ \E ord \in Orders(get_connected_exec(Top.node, TRUE)) :
              Goto([Top EXCEPT !.pc = "succ", !.stack = ord, !.seen = {}])
         /\ UNCHANGED <<ret, result>>
    ELSE Return(OkRet)

TrFrame(n) == Frame("trigger", "start", n, "self", "top")

\* line 982: walk the dependencies
TrStart ==
    /\ At("trigger", "start")
    /\ Call([Top EXCEPT !.pc = "deps"], DepsFrame(Top.node, "self", "top", "resolver"))
    /\ UNCHANGED <<board, trig, mode, ws, nstate, execOn, errOn, errStr, guard,
                   lguard, ret, result, trace>>

\* lines 982-996
TrAfterDeps ==
    /\ At("trigger", "deps")
    /\ IF ret.e = "false"
       THEN Call([Top EXCEPT !.pc = "he", !.pend = ErrRet("DependencyFailed", Top.node)],
                 HeFrame(Top.node, "self", "top",
                         Msg("Failed to trigger missing dependencies", "")))
       ELSE Call([Top EXCEPT !.pc = "run"], RunFrame(Top.node, "self", "top"))
    /\ UNCHANGED <<board, trig, mode, ws, nstate, execOn, errOn, errStr, guard,
                   lguard, ret, result, trace>>

\* lines 985-993, 998-1000, 1038-1042
TrAfterHandleError == AfterHandleError("trigger")

\* lines 996-1023
TrAfterRun ==
    /\ At("trigger", "run")
    /\ IF ret.t = "err"
       THEN /\ Call([Top EXCEPT !.pc = "he", !.pend = ExecutionFailed(Top.node)],
                    HeFrame(Top.node, "self", "top", DebugFmt(ret)))
            /\ UNCHANGED <<ret, result>>
       ELSE Successors("trigger")
    /\ UNCHANGED <<board, trig, mode, ws, nstate, execOn, errOn, errStr, guard,
                   lguard, trace>>

\* lines 1025-1036
TrSuccPop == SuccPop("trigger")
\* lines 1025, 1078
TrSuccDone == SuccDone("trigger")
\* lines 1034-1045
TrAfterSuccDeps == AfterSuccDeps("trigger", "Failed to trigger successor dependencies")
\* lines 1045-1075
TrAfterSuccRun == AfterSuccRun("trigger")

TwdFrame(n) == Frame("twd", "start", n, "self", "top")

\* lines 1087-1107: state Running, the guard, then the mapped dependencies
TwdEnter ==
    /\ At("twd", "start")
    /\ LET n  == Top.node
           G0 == GuardOf(Top.g)
           G1 == IF G0.some THEN G0 ELSE [some |-> TRUE, ids |-> {}]
       IN  /\ set_state(n, "Running")
           /\ IF n \in G1.ids
              THEN /\ SetGuard(Top.g, G1)
                   /\ Log(Event("skip", n, Top.role, NoRet))
                   /\ Return(OkRet)
              ELSE /\ SetGuard(Top.g, [G1 EXCEPT !.ids = @ \cup {n}])
                   /\ Call([Top EXCEPT !.pc = "deps"], DepsFrame(n, "self", "top", "map"))
                   /\ UNCHANGED <<ret, result, trace>>
    /\ UNCHANGED <<board, trig, mode, ws, execOn, errOn, errStr>>

\* lines 1107-1119
TwdAfterDeps ==
    /\ At("twd", "deps")
    /\ IF ret.e = "false"
       THEN /\ Call([Top EXCEPT !.pc = "he", !.pend = ErrRet("DependencyFailed", Top.node)],
                    HeFrame(Top.node, "self", "top",
                            Msg("Failed to trigger mapped dependencies", "")))
            /\ UNCHANGED trace
       ELSE /\ Goto([Top EXCEPT !.pc = "logic"])
            /\ Log(Event("start", Top.node, Top.role, NoRet))
    /\ UNCHANGED <<board, trig, mode, ws, nstate, execOn, errOn, errStr, guard,
                   lguard, ret, result>>

\* lines 1120-1157: the logic call, its state, the error route or the successors
TwdLogic ==
    /\ At("twd", "logic")
    /\ \E ok \in BOOLEAN, act \in SUBSET OutItems(Top.node), why \in Causes :
         LET n == Top.node
         IN  /\ (~ok => act = {})
             /\ (ok => why = "Failed")
             /\ logic_run(n, ok, act)
             /\ set_state(n, IF ok THEN "Success" ELSE "Error")
             /\ Log(IF ok THEN [Event("end_ok", n, Top.role, NoRet) EXCEPT !.out = act]
                       ELSE Event("end_err", n, Top.role, LogicErr(why)))
             /\ IF ok
                THEN IF ws
                     THEN /\ \E ord \in Orders({m \in Nodes :
                                   <<"exec", n, m>> \in act
                                   \/ (<<"err", n, m>> \in board /\ n \in errOn)}) :
                               Goto([Top EXCEPT !.pc = "succ", !.stack = ord, !.seen = {}])
                          /\ UNCHANGED <<ret, result>>
                     ELSE Return(OkRet)
                ELSE /\ Call([Top EXCEPT !.pc = "he", !.pend = ExecutionFailed(n)],
                             HeFrame(n, "self", "top", DebugFmt(LogicErr(why))))
                     /\ UNCHANGED <<ret, result>>
    /\ UNCHANGED <<board, trig, mode, ws, errOn, errStr, guard, lguard>>

\* lines 1109-1110, 1132-1133, 1176-1179
TwdAfterHandleError == AfterHandleError("twd")
\* lines 1162-1174
TwdSuccPop == SuccPop("twd")
\* lines 1162, 1215
TwdSuccDone == SuccDone("twd")
\* lines 1174-1183
TwdAfterSuccDeps == AfterSuccDeps("twd", "Failed to trigger successor mapped dependencies")
\* lines 1183-1212
TwdAfterSuccRun == AfterSuccRun("twd")

(***************************************************************************)
(* A top-level invocation: every runtime value is reset, the caller hands  *)
(* no guard (&mut None), and the entry point is called on the triggered    *)
(* node.                                                                   *)
(***************************************************************************)
Triggered == {"a", "p"}

Init ==
    /\ trig \in Triggered
    /\ board \in BoardsUpTo(trig, MaxEdges)
    /\ mode \in {"trigger", "twd"}
    /\ ws \in BOOLEAN
    /\ nstate = [n \in Nodes |-> "Idle"]
    /\ execOn = {}
    /\ errOn = {}
    /\ errStr = [n \in Nodes |-> NoMsg]
    /\ guard = NoGuard
    /\ lguard = NoGuard
    /\ frames = <<IF mode = "trigger" THEN TrFrame(trig) ELSE TwdFrame(trig)>>
    /\ ret = NoRet
    /\ result = NoRet
    /\ trace = <<>>

Next ==
    \/ RunEnter \/ RunLogic
    \/ DepsSeed \/ DepsEnter \/ DepsExit \/ DepsAfterRun \/ DepsDone
    \/ HeEnter \/ HeNextHandler \/ HeAfterHandlerDeps \/ HeAfterHandlerRun
    \/ HeSuccPop \/ HeSuccDone \/ HeAfterSuccDeps \/ HeAfterSuccRun
    \/ TrStart \/ TrAfterDeps \/ TrAfterHandleError \/ TrAfterRun
    \/ TrSuccPop \/ TrSuccDone \/ TrAfterSuccDeps \/ TrAfterSuccRun
    \/ TwdEnter \/ TwdAfterDeps \/ TwdLogic \/ TwdAfterHandleError
    \/ TwdSuccPop \/ TwdSuccDone \/ TwdAfterSuccDeps \/ TwdAfterSuccRun

Spec == Init /\ [][Next]_vars

Done == frames = <<>>

(***************************************************************************)
(* What the properties speak of.                                           *)
(***************************************************************************)
\* The pure-parent relation of the board, read off its data items.
PureParentRel(n) == {m \in PureN : <<"data", n, m>> \in board}

RECURSIVE Closure(_, _)
Closure(S, k) ==
    IF k = 0 THEN S ELSE Closure(S \cup UNION {PureParentRel(m) : m \in S}, k - 1)

\* The transitive pure ancestors of n.
Ancestors(n) == Closure(PureParentRel(n), Cardinality(Nodes))

\* A data-dependency cycle among the pure ancestors of n (or through n).
HasCycle(n) == \E m \in Ancestors(n) : m \in Ancestors(m)

\* The handlers wired to n's auto_handle_error output.
Handlers(n) == {m \in Nodes : <<"err", n, m>> \in board}

Idx == DOMAIN trace
IsStart(i) == trace[i].ev = "start"
IsEnd(i)   == trace[i].ev \in {"end_ok", "end_err"}
\* a failure: a logic call failed, or a walk gave up on a cycle
IsFailure(i) == trace[i].ev \in {"end_err", "deps_fail", "cycle"}

\* C1: every pure parent of a node whose logic begins has completed its
\* logic (its call has returned) before.
DependenciesBeforeDependents ==
    \A i \in Idx :
        IsStart(i) =>
            \A P \in PureParentRel(trace[i].node) :
                \E j \in 1..(i - 1) : IsEnd(j) /\ trace[j].node = P

\* C1 witness: a handler and an exec successor have begun, each after a
\* pure parent of its own.
DependenciesBeforeDependentsWitness ==
    \E i \in Idx :
        /\ IsStart(i)
        /\ trace[i].role \in {"handler", "succ", "hsucc"}
        /\ PureParentRel(trace[i].node) # {}
        /\ \E P \in PureParentRel(trace[i].node) : PureParentRel(P) # {}

\* the walk of the triggered node's own dependencies failed
SelfWalkFailed ==
    \E i \in Idx : trace[i].ev \in {"deps_fail", "cycle"} /\ trace[i].role = "self"

\* the logic call of a node in role r failed at i
LogicFailedAt(i, r) == trace[i].ev = "end_err" /\ trace[i].role = r

\* C2: on a data-dependency cycle among the pure ancestors of the triggered
\* node, trigger returns the error CycleDetected.
CycleReturnsCycleDetected ==
    (Done /\ mode = "trigger" /\ HasCycle(trig)) => result.e = "CycleDetected"

\* C3: when the logic of the triggered node or of an exec successor fails
\* and handlers are wired to its auto_handle_error output, the logic of the
\* handlers is run before trigger returns (of all of them when none fails).
FailureRunsHandlers ==
    (Done /\ mode = "trigger") =>
        \A i \in Idx :
            (/\ LogicFailedAt(i, "self") \/ LogicFailedAt(i, "succ")
             /\ Handlers(trace[i].node) # {}
             /\ \A j \in Idx : j > i => ~IsFailure(j)) =>
                \A h \in Handlers(trace[i].node) :
                    \E k \in Idx : k > i /\ IsStart(k) /\ trace[k].node = h

\* C4: an error returned because the logic of the triggered node or of an
\* exec successor failed carries the id of the node whose logic failed.
ErrorNamesFailingNode ==
    Done =>
        \A i \in Idx :
            (LogicFailedAt(i, "self") \/ LogicFailedAt(i, "succ")) =>
                result.t = "err" /\ result.id = trace[i].node

\* C5: within one trigger(with_successors = true) the logic of a node reached
\* through the execution graph, the triggered node included, is invoked at
\* most once.
ExecNodeRunsAtMostOnce ==
    (mode = "trigger" /\ ws) =>
        \A n \in Nodes :
            Cardinality({i \in Idx : IsStart(i) /\ trace[i].node = n
                                     /\ trace[i].role \in {"self", "succ"}}) <= 1

\* the logic calls of node n that began after the first k entries of the trace
StartsAfter(n, k) == {i \in Idx : i > k /\ IsStart(i) /\ trace[i].node = n}

\* a dependency walk is about to return true
WalkSucceeds == At("deps", "loop") /\ Top.stack = <<>>

\* C6: a dependency walk (either form) that starts with a guard holding no
\* ancestor's id (an empty guard in particular) and succeeds has run the
\* logic of every transitive pure ancestor of its node exactly once.
WalkRunsAncestorsOnce ==
    (WalkSucceeds /\ Top.g0 \cap Ancestors(Top.node) = {}) =>
        \A m \in Ancestors(Top.node) : Cardinality(StartsAfter(m, Top.n0)) = 1

\* C6 witness: both forms finish a walk over a diamond (q is reached from the
\* node directly and through p).
Diamond(n) == {<<"data", n, "p">>, <<"data", n, "q">>, <<"data", "p", "q">>} \subseteq board

WalkRunsAncestorsOnceWitness ==
    WalkSucceeds /\ Top.g0 \cap Ancestors(Top.node) = {} /\ Diamond(Top.node)
      /\ Top.form = "map"

\* C7: when the dependency walk of the triggered node fails, the entry point
\* returns DependencyFailed with the triggered node's id, handler or not.
WalkFailureReturnsDependencyFailed ==
    (Done /\ SelfWalkFailed) => result = ErrRet("DependencyFailed", trig)

\* handle_error was entered at i for a node in one of the three cases
NoErrPin(n)     == \A e \in board : ~(e[1] \in {"pin", "err"} /\ e[2] = n)
InactivePin(n)  == <<"pin", n, "inert">> \in board
Unconnected(n)  == <<"pin", n, "exec">> \in board
EnteredAt(i)    == trace[i].ev = "he_enter"

\* C8: when the failing node has no auto_handle_error pin, or the pin is
\* inactive, or no node is connected to it, handle_error returns
\* ExecutionFailed with that node's id and runs no node's logic.
HandlerlessFailureIsTerminal ==
    \A i \in Idx :
        (/\ EnteredAt(i)
         /\ NoErrPin(trace[i].node) \/ InactivePin(trace[i].node)
              \/ Unconnected(trace[i].node)) =>
            /\ i < Len(trace)
            /\ trace[i + 1].ev = "he_err"
            /\ trace[i + 1].r = ErrRet("ExecutionFailed", trace[i].node)

\* C8 witness: handle_error has returned for an exec successor whose
\* auto_handle_error pin is there and has nothing connected.
HandlerlessFailureIsTerminalWitness ==
    \E i \in Idx :
        /\ EnteredAt(i) /\ Unconnected(trace[i].node) /\ trace[i].role = "succ"
        /\ i < Len(trace) /\ trace[i + 1].ev = "he_err"

\* the triggered node's logic failed at i, handlers are wired to it and
\* nothing failed afterwards
HandledSelfFailure(i) ==
    /\ LogicFailedAt(i, "self")
    /\ Handlers(trig) # {}
    /\ \A j \in Idx : j > i => ~IsFailure(j)

\* C9: when the triggered node's logic fails and every handler and every
\* exec successor of a handler completes, the node's final state is Error
\* and the entry point returns ExecutionFailed with the node's id.
HandledFailureEndsInError ==
    (Done /\ \E i \in Idx : HandledSelfFailure(i)) =>
        /\ nstate[trig] = "Error"
        /\ result = ErrRet("ExecutionFailed", trig)

\* C9 witness: trigger is done after a handler and an exec successor of the
\* handler ran to the end.
HandledFailureEndsInErrorWitness ==
    /\ Done /\ mode = "trigger"
    /\ \E i \in Idx :
          /\ HandledSelfFailure(i)
          /\ \E j, k \in Idx : /\ i < j /\ j < k
                               /\ trace[j].ev = "end_ok" /\ trace[j].role = "handler"
                               /\ trace[k].ev = "end_ok" /\ trace[k].role = "hsucc"

\* a failure of the chain itself at f: of a handler or of an exec successor
\* of a handler (its logic, or its dependency walk), after handle_error was
\* entered at e
ChainFailureAt(e, f) ==
    /\ EnteredAt(e) /\ e < f
    /\ IsFailure(f) /\ trace[f].role \in {"handler", "hsucc"}

\* the handler that was being driven at f
HandlerAt(f) ==
    IF trace[f].role = "handler" THEN trace[f].node
    ELSE LET hs == {k \in 1..f : trace[k].role = "handler"}
         IN  trace[CHOOSE k \in hs : \A l \in hs : l <= k].node

\* the error message of the failure at f
FailureMsg(f) ==
    IF trace[f].ev = "end_err" THEN Msg("ExecutionFailed", trace[f].node)
    ELSE IF trace[f].role = "handler"
    THEN Msg("Failed to trigger missing dependencies for error handler", "")
    ELSE Msg("Failed to trigger successor dependencies (error chain)", "")

\* the node has the pins auto_handle_error and auto_handle_error_string
HasErrorPins(n) == Unconnected(n) \/ Handlers(n) # {}

\* handle_error stopped at the failure at f and returned ExecutionFailed
\* with the id of the node it was entered for at e
ChainStopsAt(e, f) ==
    /\ \A k \in Idx : k > f => ~IsStart(k)
    /\ \E k \in Idx : /\ k > f /\ trace[k].ev = "he_err"
                      /\ trace[k].r = ErrRet("ExecutionFailed", trace[e].node)

\* C10 as stated: after a failure in the chain handle_error stops, returns
\* ExecutionFailed with the original node's id, and the handler's
\* auto_handle_error_string holds the error message of the failure.
ChainFailureMessageOnHandler ==
    Done =>
        \A e, f \in Idx :
            ChainFailureAt(e, f) =>
                /\ ChainStopsAt(e, f)
                /\ HasErrorPins(HandlerAt(f)) => errStr[HandlerAt(f)] = FailureMsg(f)

\* C10 amended: the handler's auto_handle_error_string holds the message of
\* the failure when the handler or its dependencies failed, and the text
\* "error chain aborted" when an exec successor of the handler (or the
\* successor's dependencies) failed.
ChainFailureAborts ==
    Done =>
        \A e, f \in Idx :
            ChainFailureAt(e, f) =>
                /\ ChainStopsAt(e, f)
                /\ HasErrorPins(HandlerAt(f)) =>
                      errStr[HandlerAt(f)] =
                          IF trace[f].role = "handler" THEN FailureMsg(f)
                          ELSE Msg("error chain aborted", "")

\* C10 witness: the logic of an exec successor of a handler failed, and the
\* handler has an auto_handle_error_string pin.
ChainFailureAbortsWitness ==
    /\ Done
    /\ \E e, f \in Idx :
          /\ ChainFailureAt(e, f)
          /\ trace[f].ev = "end_err" /\ trace[f].role = "hsucc"
          /\ HasErrorPins(HandlerAt(f))
          /\ HandlerAt(f) # trace[f].node

\* the dependency walk of the triggered node met a node on its visiting set
SelfCycleDetected ==
    \E i \in Idx : trace[i].ev = "cycle" /\ trace[i].role = "self"

\* C11: a cycle detected by the dependency walk of the triggered node is
\* surfaced without error routing: the node's auto_handle_error output is
\* not activated and no handler's logic is run.
CycleIsNotRouted ==
    (Done /\ SelfCycleDetected) =>
        /\ trig \notin errOn
        /\ \A i \in Idx : ~(IsStart(i) /\ trace[i].role = "handler")

\* the logic call that ended at i failed because of cancellation
CancelledAt(i) == trace[i].ev = "end_err" /\ trace[i].r = LogicErr("Cancelled")

\* C12: when a node's logic fails because of cancellation the failure is not
\* routed: no auto_handle_error output is activated, no handler is run,
\* nothing runs afterwards and the entry point returns Cancelled.
CancellationIsNotRouted ==
    Done =>
        \A i \in Idx :
            CancelledAt(i) =>
                /\ errOn = {}
                /\ \A j \in Idx : j > i => ~IsStart(j)
                /\ result.t = "err" /\ result.e = "Cancelled"

\* the positions at which the logic of n began as the triggered node or as
\* an exec successor, and those at which it returned Ok
ExecStarts(n) == {i \in Idx : IsStart(i) /\ trace[i].node = n
                              /\ trace[i].role \in {"self", "succ"}}
ExecEnds(n)   == {i \in Idx : trace[i].ev = "end_ok" /\ trace[i].node = n
                              /\ trace[i].role \in {"self", "succ"}}

\* C13: in one trigger with successors, when P and S are both run and an
\* active exec output of P is connected to S, P's logic has completed before
\* S's logic begins.
ExecPredecessorCompletesFirst ==
    (Done /\ mode = "trigger" /\ ws) =>
        \A P, S \in Impure :
            (/\ P # S /\ <<"exec", P, S>> \in execOn
             /\ ExecStarts(P) # {} /\ ExecStarts(S) # {}) =>
                \A i \in ExecStarts(S) : \E j \in ExecEnds(P) : j < i

(***************************************************************************)
(* A second family of inputs for the successor walk: the triggered node    *)
(* has two exec successors, and up to MaxExtra more items hang off them.   *)
(***************************************************************************)
MaxExtra == 2

WalkBase == {<<"exec", "a", "b">>, <<"exec", "a", "c">>}

RECURSIVE ExtendBy(_, _, _)
ExtendBy(t, S, k) ==
    IF k = 0 THEN S
    ELSE LET prev == ExtendBy(t, S, k - 1)
         IN  prev \cup UNION {{B \cup {c} : c \in Ext(t, B)} : B \in prev}

WalkBoards == ExtendBy("a", {WalkBase}, MaxExtra)

InitWalk ==
    /\ trig = "a"
    /\ board \in WalkBoards
    /\ mode \in {"trigger", "twd"}
    /\ ws = TRUE
    /\ nstate = [n \in Nodes |-> "Idle"]
    /\ execOn = {}
    /\ errOn = {}
    /\ errStr = [n \in Nodes |-> NoMsg]
    /\ guard = NoGuard
    /\ lguard = NoGuard
    /\ frames = <<IF mode = "trigger" THEN TrFrame(trig) ELSE TwdFrame(trig)>>
    /\ ret = NoRet
    /\ result = NoRet
    /\ trace = <<>>

SpecWalk == InitWalk /\ [][Next]_vars

\* the positions at which a step of the successor walk failed: the
\* dependencies of a successor, or its logic
WalkFailures == {i \in Idx : IsFailure(i) /\ trace[i].role = "succ"}

\* the nodes on the work stack of the entry point
OnWorkStack ==
    IF frames = <<>> THEN {}
    ELSE {frames[1].stack[k] : k \in 1..Len(frames[1].stack)}

\* C14 as stated: when a step of the successor walk fails the entry point
\* returns an error and no node still on the work stack is run afterwards.
WalkFailureRunsNoStackedNode ==
    /\ (Done /\ WalkFailures # {}) => result.t = "err"
    /\ \A i \in WalkFailures : \A j \in Idx :
          (j > i /\ IsStart(j)) => trace[j].node \notin OnWorkStack

\* C14 amended: after a failed step the walk pops no further node: nothing
\* is run as an exec successor any more (the failing successor's error chain
\* may run), and the entry point returns an error.
WalkFailureEndsWalk ==
    /\ (Done /\ WalkFailures # {}) => result.t = "err"
    /\ \A i \in WalkFailures : \A j \in Idx :
          (j > i /\ trace[j].role = "succ") =>
              trace[j].ev \in {"he_enter", "he_ok", "he_err"}

\* C14 witness: the walk failed while a node was left on the work stack, and
\* the failing successor's handler ran afterwards.
WalkFailureEndsWalkWitness ==
    /\ OnWorkStack # {}
    /\ \E i \in WalkFailures : \E j \in Idx :
          j > i /\ IsStart(j) /\ trace[j].role = "handler"

\* S was reached: a node that ran as the triggered node or as an exec
\* successor finished with an exec output connected to S left true
ReachedBefore(S, i) ==
    \E j \in 1..(i - 1) :
        /\ trace[j].ev = "end_ok" /\ trace[j].role \in {"self", "succ"}
        /\ <<"exec", trace[j].node, S>> \in trace[j].out

\* the frames of the entry point's successor walk and of what it called for
\* a successor
WalkFrames == {k \in 1..Len(frames) : frames[k].role = "succ"}

\* C15: the successor walk runs a node, gives it a sub-context or walks its
\* dependencies only if an exec output connected to it was true when its
\* predecessor finished.
OnlyActiveOutputsAreFollowed ==
    /\ \A i \in Idx : trace[i].role = "succ" => ReachedBefore(trace[i].node, i)
    /\ \A k \in WalkFrames : ReachedBefore(frames[k].node, Len(trace) + 1)
    /\ frames # <<>> =>
          /\ \A k \in 1..Len(frames[1].stack) :
                ReachedBefore(frames[1].stack[k], Len(trace) + 1)
          /\ frames[1].cur # None => ReachedBefore(frames[1].cur, Len(trace) + 1)

\* C15 witness: the walk is over, one exec output of the triggered node was
\* true and its target ran, another was false and its target did not run.
OnlyActiveOutputsAreFollowedWitness ==
    /\ Done /\ result = OkRet /\ ws
    /\ \E S, T \in Impure :
          /\ <<"exec", trig, S>> \in execOn
          /\ \E i \in Idx : IsStart(i) /\ trace[i].node = S /\ trace[i].role = "succ"
          /\ <<"exec", trig, T>> \in board \ execOn
          /\ \A i \in Idx : trace[i].node # T

\* the last position before i at which the triggered node or an exec
\* successor was at work (0 when there is none): what lies between it and i
\* belongs to the dependency walk of the node that starts at i
WalkStart(i) ==
    LET prev == {k \in 1..(i - 1) : trace[k].role \in {"self", "succ"}}
    IN  IF prev = {} THEN 0 ELSE CHOOSE k \in prev : \A l \in prev : l <= k

\* C16: every exec successor starts with a new, empty guard: each pure
\* parent of a successor whose logic begins was run in that successor's own
\* dependency walk, whatever ran under the triggered node or under another
\* successor before.
SuccessorRunsOwnDependencies ==
    \A i \in Idx :
        (IsStart(i) /\ trace[i].role = "succ") =>
            \A P \in PureParentRel(trace[i].node) :
                Cardinality({j \in (WalkStart(i) + 1)..(i - 1) :
                                IsStart(j) /\ trace[j].node = P
                                           /\ trace[j].role = "dep"}) = 1

\* C16 witness: a pure node ran for the triggered node and again for an
\* exec successor that then began.
SuccessorRunsOwnDependenciesWitness ==
    \E i \in Idx :
        /\ IsStart(i) /\ trace[i].role = "succ" /\ trace[i].node # trig
        /\ \E P \in PureParentRel(trace[i].node) \cap PureParentRel(trig) :
              \E j, k \in Idx :
                  /\ j < WalkStart(i) /\ WalkStart(i) < k /\ k < i
                  /\ IsStart(j) /\ trace[j].node = P
                  /\ IsStart(k) /\ trace[k].node = P

\* C17: while the error chain of a failing node F is driven, after its logic
\* or its dependencies failed, the logic of F itself is not run.
ErrorChainDoesNotRunSource ==
    \A e \in Idx :
        EnteredAt(e) =>
            \A j \in Idx : (j > e /\ IsStart(j)) => trace[j].node # trace[e].node

\* the engine is about to execute the node of the innermost frame and finds
\* its id in the guard it was handed
AboutToRunGuarded ==
    /\ frames # <<>>
    /\ \/ Top.fn = "run" /\ Top.pc = "enter"
       \/ Top.fn = "twd" /\ Top.pc = "start"
    /\ GuardContains(GuardOf(Top.g), Top.node)

\* a dependency walk is at the Exit entry of a node whose id is in the guard
ExitOfGuarded ==
    /\ At("deps", "loop") /\ Top.stack # <<>>
    /\ Last(Top.stack)[2] = "Exit"
    /\ GuardContains(GuardOf(Top.g), Last(Top.stack)[1])

\* the step pops a successor and hands it a local guard of its own
NewLocalGuard ==
    /\ Len(frames') = Len(frames) + 1
    /\ frames'[Len(frames')].fn = "deps" /\ frames'[Len(frames')].role = "succ"

\* C18: a guard only grows, and the logic of a node whose id is in the guard
\* when it is about to be executed is not invoked: the call returns at once.
GuardGrowsAndBlocks ==
    [][/\ guard.ids \subseteq guard'.ids
       /\ lguard.ids \subseteq lguard'.ids \/ NewLocalGuard
       /\ AboutToRunGuarded =>
             /\ trace' = Append(trace, Event("skip", Top.node, Top.role, NoRet))
             /\ frames' = SubSeq(frames, 1, Len(frames) - 1)
             /\ execOn' = execOn
       /\ ExitOfGuarded => Len(frames') = Len(frames) /\ trace' = trace]_vars

\* C18 witness: a node found in a guard that holds more than its id was
\* skipped.
GuardGrowsAndBlocksWitness ==
    /\ Cardinality(guard.ids) > 1
    /\ \E i \in Idx : trace[i].ev = "skip" /\ trace[i].node \in guard.ids

\* the state changes of the node lifecycle
Lifecycle == {<<"Idle", "Running">>, <<"Running", "Success">>, <<"Running", "Error">>}

\* C19: every state change the engine applies to a node is idle to running,
\* running to success or running to error.
StateFollowsLifecycle ==
    [][\A n \in Nodes :
          nstate'[n] # nstate[n] => <<nstate[n], nstate'[n]>> \in Lifecycle]_vars

(***************************************************************************)
(* The two entry points side by side: trigger runs on a fresh board, then  *)
(* trigger_with_dependencies runs on the same board, fresh again, with the *)
(* map built from its pure-parent relation and no guard.  The boards are   *)
(* those on which no iteration order is left open: a node has at most one  *)
(* pure parent and at most one node wired to its execution outputs.        *)
(***************************************************************************)
Unambiguous(B) ==
    \A n \in Nodes :
        /\ Cardinality({e \in B : e[1] = "data" /\ e[2] = n /\ e[3] \in PureN}) <= 1
        /\ Cardinality({e \in B : e[1] \in {"exec", "err"} /\ e[2] = n}) <= 1

InitBoth ==
    /\ trig \in Triggered
    /\ board \in {B \in BoardsUpTo(trig, MaxEdges) : Unambiguous(B)}
    /\ mode = "trigger"
    /\ ws \in BOOLEAN
    /\ nstate = [n \in Nodes |-> "Idle"]
    /\ execOn = {}
    /\ errOn = {}
    /\ errStr = [n \in Nodes |-> NoMsg]
    /\ guard = NoGuard
    /\ lguard = NoGuard
    /\ frames = <<TrFrame(trig)>>
    /\ ret = NoRet
    /\ result = NoRet
    /\ trace = <<>>

\* trigger has returned: note what it returned, put the board back into its
\* fresh state and call trigger_with_dependencies on the same node
Restart ==
    /\ Done /\ mode = "trigger"
    /\ mode' = "twd"
    /\ Log(Event("restart", trig, "self", result))
    /\ nstate' = [n \in Nodes |-> "Idle"]
    /\ execOn' = {}
    /\ errOn' = {}
    /\ errStr' = [n \in Nodes |-> NoMsg]
    /\ guard' = NoGuard
    /\ lguard' = NoGuard
    /\ frames' = <<TwdFrame(trig)>>
    /\ ret' = NoRet
    /\ result' = NoRet
    /\ UNCHANGED <<board, trig, ws>>

NextBoth == Next \/ Restart

SpecBoth == InitBoth /\ [][NextBoth]_vars

\* where in the trace the second call begins (0: it has not begun)
RestartAt ==
    LET rs == {i \in Idx : trace[i].ev = "restart"}
    IN  IF rs = {} THEN 0 ELSE CHOOSE i \in rs : TRUE

\* the nodes whose logic was run between the positions lo and hi
RanIn(lo, hi) == {trace[i].node : i \in {k \in lo..hi : IsStart(k)}}

\* dependencies first, between the positions lo and hi
DepsFirstIn(lo, hi) ==
    \A i \in lo..hi :
        IsStart(i) => \A P \in PureParentRel(trace[i].node) :
            \E j \in lo..(i - 1) : IsEnd(j) /\ trace[j].node = P

\* Ok, DependencyFailed or ExecutionFailed
Kind(res) == IF res.t = "ok" THEN "Ok" ELSE res.e

\* every logic call of a node behaved the same way, in both calls
SameLogic ==
    \A i, j \in Idx :
        (IsEnd(i) /\ IsEnd(j) /\ trace[i].node = trace[j].node) =>
            trace[i].ev = trace[j].ev /\ trace[i].out = trace[j].out

\* C20: with a map that equals the pure-parent relation and no guard,
\* trigger and trigger_with_dependencies run the same set of nodes, both
\* dependencies first, and return the same kind of result.
TwoFormsAgree ==
    (Done /\ mode = "twd" /\ RestartAt > 0 /\ SameLogic) =>
        /\ RanIn(1, RestartAt - 1) = RanIn(RestartAt + 1, Len(trace))
        /\ DepsFirstIn(1, RestartAt - 1)
        /\ DepsFirstIn(RestartAt + 1, Len(trace))
        /\ Kind(trace[RestartAt].r) = Kind(result)

(***************************************************************************)
(* The pin level.  The graph queries of InternalNode walk weak references  *)
(* between InternalPins; this part models them pin by pin.  The queried    *)
(* node is "a".  In the specification SpecPins the variable board holds    *)
(* the pin arena: its items and the memo map of the dependency resolver.   *)
(***************************************************************************)
\* The pins of the arena: owning node (None for a standalone relay pin),
\* Pin::pin_type, whether Pin::data_type is Execution, Pin::name.
PinTable ==
    [a_in  |-> [node |-> "a",  pin_type |-> "Input",  exec |-> FALSE, name |-> "in"],
     a_ex  |-> [node |-> "a",  pin_type |-> "Input",  exec |-> TRUE,  name |-> "exec_in"],
     a_out |-> [node |-> "a",  pin_type |-> "Output", exec |-> TRUE,  name |-> "exec_out"],
     a_err |-> [node |-> "a",  pin_type |-> "Output", exec |-> TRUE,  name |-> "auto_handle_error"],
     p_o   |-> [node |-> "p",  pin_type |-> "Output", exec |-> FALSE, name |-> "out"],
     p_o2  |-> [node |-> "p",  pin_type |-> "Output", exec |-> FALSE, name |-> "out2"],
     b_o   |-> [node |-> "b",  pin_type |-> "Output", exec |-> FALSE, name |-> "out"],
     b_x   |-> [node |-> "b",  pin_type |-> "Output", exec |-> TRUE,  name |-> "exec_out"],
     b_i   |-> [node |-> "b",  pin_type |-> "Input",  exec |-> TRUE,  name |-> "exec_in"],
     b_i2  |-> [node |-> "b",  pin_type |-> "Input",  exec |-> TRUE,  name |-> "exec_in2"],
     c_i   |-> [node |-> "c",  pin_type |-> "Input",  exec |-> TRUE,  name |-> "exec_in"],
     r1    |-> [node |-> None, pin_type |-> "Output", exec |-> FALSE, name |-> "relay"],
     r2    |-> [node |-> None, pin_type |-> "Input",  exec |-> TRUE,  name |-> "relay"]]

PinIds == DOMAIN PinTable

\* The order in which the pins of a map or of an edge list are visited.
PinOrder == <<"a_in", "a_ex", "a_out", "a_err", "p_o", "p_o2", "b_o", "b_x",
              "b_i", "b_i2", "c_i", "r1", "r2">>

SeqOf(S) == SelectSeq(PinOrder, LAMBDA x : x \in S)

\* Largest number of items of a pin arena.
MaxPinItems == 3

(***************************************************************************)
(* The items of a pin arena:                                               *)
(*   <<"wire", o, i>>    i.depends_on refers to o, o.connected_to to i;    *)
(*   <<"val", x, v>>     the value slot of x holds Bool(v);                *)
(*   <<"def", x, "set">> the input pin x has a default_value;              *)
(*   <<"pin", x, "set">> x is a pin of "a" (with no edge, value, default); *)
(*   <<"dead", x, "set">> x has been dropped: a Weak to it does not        *)
(*                       upgrade any more.                                 *)
(* A pin of "a" is in a.pins when an item mentions it.                     *)
(***************************************************************************)
PinCand ==
    ({"wire"} \X {"p_o", "p_o2", "b_o", "b_x", "r1"} \X {"a_in", "a_ex", "r1"})
      \cup ({"wire"} \X {"a_out", "a_err", "r2"} \X {"b_i", "b_i2", "c_i", "r2"})
      \cup ({"val"} \X {"p_o", "b_x", "a_out", "a_err"} \X {"true", "false"})
      \cup ({"def"} \X {"a_in", "a_ex"} \X {"set"})
      \cup ({"pin"} \X {"a_in", "a_ex", "a_err"} \X {"set"})
      \cup ({"dead"} \X {"p_o", "b_x", "r1", "b_i", "r2"} \X {"set"})

\* A value slot holds one value.
OneValue(I) == \A x \in PinIds : ~(<<"val", x, "true">> \in I /\ <<"val", x, "false">> \in I)

RECURSIVE ArenasUpTo(_)
ArenasUpTo(k) ==
    IF k = 0 THEN {{}}
    ELSE LET prev == ArenasUpTo(k - 1)
         IN  prev \cup {I \cup {c} : I \in prev, c \in PinCand} 

Arenas == {I \in ArenasUpTo(MaxPinItems) : OneValue(I)}

\* InternalPin::depends_on and InternalPin::connected_to as edge lists.
depends_on(I, x)   == SeqOf({o \in PinIds : <<"wire", o, x>> \in I})
connected_to(I, x) == SeqOf({i \in PinIds : <<"wire", x, i>> \in I})

\* Weak::upgrade of a reference to pin x succeeds.
upgrade(I, x) == <<"dead", x, "set">> \notin I

\* Pin::value and Pin::default_value
value(I, x) ==
    IF <<"val", x, "true">> \in I THEN "true"
    ELSE IF <<"val", x, "false">> \in I THEN "false" ELSE None
default_value(I, x) == IF <<"def", x, "set">> \in I THEN "set" ELSE None

\* InternalNode::pins of node n, in the order of values()
pins(I, n) ==
    SeqOf({x \in PinIds : /\ PinTable[x].node = n
                          /\ \E it \in I : it[2] = x \/ (it[1] = "wire" /\ it[3] = x)})

\* evaluate_pin_value of an output pin: the value its slot holds.
evaluate_pin_value(I, x) ==
    IF value(I, x) = None THEN [t |-> "err", v |-> "no value"]
    ELSE [t |-> "ok", v |-> value(I, x)]

PinOk(v)   == [t |-> "ok", v |-> v]
PinErr(e)  == [t |-> "err", v |-> e]

\* Vec::retain(|n| seen.insert(n)): the first occurrence of each element
RECURSIVE Dedup(_, _)
Dedup(s, seen) ==
    IF s = <<>> THEN <<>>
    ELSE IF Head(s) \in seen THEN Dedup(Tail(s), seen)
         ELSE <<Head(s)>> \o Dedup(Tail(s), seen \cup {Head(s)})

Range(s) == {s[i] : i \in 1..Len(s)}

\* The nodes owning the pins of a list, in the order of the list.
OwnersOf(ps) == [i \in 1..Len(ps) |-> PinTable[ps[i]].node]

\* The `while let Some(weak) = stack.pop()` loop of the traversals: pops the
\* last reference; one that does not upgrade is skipped (strict = FALSE:
\* `else { continue }`) or ends the call (strict = TRUE: `.ok_or(..)?`); a pin
\* seen before is skipped; a pin with an owning node is found; the edges of a
\* standalone pin are pushed.  dir = "up" follows depends_on, "down"
\* connected_to.  Yields the found pins in the order they were found.
RECURSIVE relay_walk(_, _, _, _, _, _)
relay_walk(I, dir, strict, stack, visited, found) ==
    IF stack = <<>> THEN PinOk(found)
    ELSE LET x    == stack[Len(stack)]
             rest == SubSeq(stack, 1, Len(stack) - 1)
         IN  IF ~upgrade(I, x)
             THEN IF strict THEN PinErr("Failed to lock Pin")
                  ELSE relay_walk(I, dir, strict, rest, visited, found)
             ELSE IF x \in visited
             THEN relay_walk(I, dir, strict, rest, visited, found)
             ELSE IF PinTable[x].node # None
             THEN relay_walk(I, dir, strict, rest, visited \cup {x}, Append(found, x))
             ELSE relay_walk(I, dir, strict,
                             rest \o (IF dir = "up" THEN depends_on(I, x)
                                      ELSE connected_to(I, x)),
                             visited \cup {x}, found)

\* lines 211-258 of pure_parents_for_memo: for each input pin of ps that is
\* not an execution pin, the pure owners of the pins found upstream.
RECURSIVE parents_of_pins(_, _)
parents_of_pins(I, ps) ==
    IF ps = <<>> THEN <<>>
    ELSE LET x == Head(ps)
         IN  IF PinTable[x].pin_type # "Input" \/ PinTable[x].exec
             THEN parents_of_pins(I, Tail(ps))
             ELSE SelectSeq(OwnersOf(relay_walk(I, "up", FALSE, depends_on(I, x), {}, <<>>).v),
                            is_pure)
                    \o parents_of_pins(I, Tail(ps))

\* variant that is not the code's: the parents are not de-duplicated
pin_pure_parents_no_dedup(I, n, memo) ==
    IF n \in DOMAIN memo THEN [v |-> memo[n], memo |-> memo, hit |-> TRUE]
    ELSE LET r == parents_of_pins(I, pins(I, n))
         IN  [v |-> r, hit |-> FALSE,
              memo |-> [k \in DOMAIN memo \cup {n} |-> IF k = n THEN r ELSE memo[k]]]

\* pure_parents_for_memo(node, memo): the memoized list when there is one,
\* else the de-duplicated pure parents, which are put into the memo.  Yields
\* the returned list, the memo after the call and whether the memo was hit.
pin_pure_parents_for_memo(I, n, memo) ==
    IF n \in DOMAIN memo THEN [v |-> memo[n], memo |-> memo, hit |-> TRUE]
    ELSE LET r == Dedup(parents_of_pins(I, pins(I, n)), {})
         IN  [v |-> r, hit |-> FALSE,
              memo |-> [k \in DOMAIN memo \cup {n} |-> IF k = n THEN r ELSE memo[k]]]

\* The pin loop of get_connected and get_dependencies: the pins of ps are
\* walked one after the other, a node not seen before is pushed, a reference
\* that does not upgrade ends the call with an error.
RECURSIVE node_walk(_, _, _, _)
node_walk(I, dir, ps, connected) ==
    IF ps = <<>> THEN PinOk(connected)
    ELSE LET seeds == IF dir = "up" THEN depends_on(I, Head(ps))
                      ELSE connected_to(I, Head(ps))
             w     == relay_walk(I, dir, TRUE, seeds, {}, <<>>)
         IN  IF w.t = "err" THEN w
             ELSE node_walk(I, dir, Tail(ps), Dedup(connected \o OwnersOf(w.v), {}))

\* InternalNode::get_connected: the nodes downstream of the output pins
pin_get_connected(I, n) ==
    node_walk(I, "down",
              SelectSeq(pins(I, n), LAMBDA x : PinTable[x].pin_type = "Output"), <<>>)

\* InternalNode::get_dependencies: the nodes upstream of the input pins
pin_get_dependencies(I, n) ==
    node_walk(I, "up",
              SelectSeq(pins(I, n), LAMBDA x : PinTable[x].pin_type = "Input"), <<>>)

\* variant that is not the code's: a pin is pushed to its node's group again
RECURSIVE group_pins_no_dedup(_, _)
group_pins_no_dedup(groups, found) ==
    IF found = <<>> THEN groups
    ELSE LET x   == Head(found)
             idx == {i \in 1..Len(groups) : groups[i].node = PinTable[x].node}
         IN  IF idx = {}
             THEN group_pins_no_dedup(Append(groups, [node |-> PinTable[x].node,
                                                      through_pins |-> <<x>>]),
                                      Tail(found))
             ELSE LET i == CHOOSE i \in idx : TRUE
                  IN  group_pins_no_dedup(
                          [groups EXCEPT ![i].through_pins = Append(@, x)],
                          Tail(found))

\* lines 535-548 of get_connected_exec: groups.entry(node) is created on the
\* first pin of the node; a pin goes into its node's group once.
RECURSIVE group_pins(_, _)
group_pins(groups, found) ==
    IF found = <<>> THEN groups
    ELSE LET x   == Head(found)
             idx == {i \in 1..Len(groups) : groups[i].node = PinTable[x].node}
         IN  IF idx = {}
             THEN group_pins(Append(groups, [node |-> PinTable[x].node,
                                             through_pins |-> <<x>>]),
                             Tail(found))
             ELSE LET i == CHOOSE i \in idx : TRUE
                  IN  group_pins(
                          [groups EXCEPT ![i].through_pins =
                               IF x \in Range(@) THEN @ ELSE Append(@, x)],
                          Tail(found))

\* The pin loop of get_connected_exec: execution outputs only, with
\* filter_valid only those evaluating to Bool(true); references that do not
\* upgrade are skipped.
RECURSIVE exec_groups(_, _, _, _)
exec_groups(I, filter_valid, ps, groups) ==
    IF ps = <<>> THEN groups
    ELSE LET x == Head(ps)
         IN  IF PinTable[x].pin_type # "Output" \/ ~PinTable[x].exec
             THEN exec_groups(I, filter_valid, Tail(ps), groups)
             ELSE IF filter_valid /\ evaluate_pin_value(I, x) # PinOk("true")
             THEN exec_groups(I, filter_valid, Tail(ps), groups)
             ELSE exec_groups(I, filter_valid, Tail(ps),
                      group_pins(groups,
                          relay_walk(I, "down", FALSE, connected_to(I, x), {}, <<>>).v))

\* InternalNode::get_connected_exec: one ExecutionTarget per group
pin_get_connected_exec(I, n, filter_valid) ==
    PinOk(exec_groups(I, filter_valid, pins(I, n), <<>>))

\* InternalNode::get_pin_by_name on an empty name cache: the first pin of
\* the node with that name.
pin_get_pin_by_name(I, n, name) ==
    LET named == SelectSeq(pins(I, n), LAMBDA x : PinTable[x].name = name)
    IN  IF named = <<>> THEN PinErr("Pin not found") ELSE PinOk(Head(named))

\* InternalNode::get_error_handled_nodes
pin_get_error_handled_nodes(I, n) ==
    LET pin    == pin_get_pin_by_name(I, n, "auto_handle_error")
        active == evaluate_pin_value(I, pin.v)
    IN  IF pin.t = "err" THEN pin
        ELSE IF active.t = "err" THEN active
        ELSE IF active.v # "true" THEN PinErr("Error Pin not active")
        ELSE IF PinTable[pin.v].pin_type # "Output" THEN PinErr("Pin is not an output pin")
        ELSE IF ~PinTable[pin.v].exec THEN PinErr("Pin is not an execution pin")
        ELSE node_walk(I, "down", <<pin.v>>, <<>>)

\* The dependency loop of is_ready for one input pin (lines 395-410): "err"
\* when a reference does not upgrade, "return" when a non-execution input
\* meets an upstream without a value, else execution_valid.
RECURSIVE ready_deps(_, _, _, _)
ready_deps(I, is_execution, deps, execution_valid) ==
    IF deps = <<>> THEN PinOk(execution_valid)
    ELSE IF ~upgrade(I, Head(deps)) THEN PinErr("Failed to lock Pin")
    ELSE IF value(I, Head(deps)) = None /\ ~is_execution
    THEN [t |-> "return", v |-> FALSE]
    ELSE ready_deps(I, is_execution, Tail(deps),
                    execution_valid \/ value(I, Head(deps)) # None)

\* variant that is not the code's: an input without upstream and without
\* default does not end the call
RECURSIVE ready_pins_no_orphan_check(_, _)
ready_pins_no_orphan_check(I, ps) ==
    IF ps = <<>> THEN PinOk(TRUE)
    ELSE LET x == Head(ps)
             d == ready_deps(I, PinTable[x].exec, depends_on(I, x), FALSE)
         IN  IF PinTable[x].pin_type # "Input" THEN ready_pins_no_orphan_check(I, Tail(ps))
             ELSE IF d.t = "err" THEN d
             ELSE IF d.t = "return" THEN PinOk(FALSE)
             ELSE IF PinTable[x].exec /\ ~d.v THEN PinOk(FALSE)
             ELSE ready_pins_no_orphan_check(I, Tail(ps))

\* The pin loop of is_ready
RECURSIVE ready_pins(_, _)
ready_pins(I, ps) ==
    IF ps = <<>> THEN PinOk(TRUE)
    ELSE LET x == Head(ps)
             d == ready_deps(I, PinTable[x].exec, depends_on(I, x), FALSE)
         IN  IF PinTable[x].pin_type # "Input" THEN ready_pins(I, Tail(ps))
             ELSE IF depends_on(I, x) = <<>> /\ default_value(I, x) = None
             THEN PinOk(FALSE)
             ELSE IF d.t = "err" THEN d
             ELSE IF d.t = "return" THEN PinOk(FALSE)
             ELSE IF PinTable[x].exec /\ ~d.v THEN PinOk(FALSE)
             ELSE ready_pins(I, Tail(ps))

\* InternalNode::is_ready
pin_is_ready(I, n) == ready_pins(I, pins(I, n))

(***************************************************************************)
(* The specification of the pin-level queries: an arena is drawn, then     *)
(* the queries are called on node "a" in any order.  result holds what the *)
(* last call returned and trace the last call.                             *)
(***************************************************************************)
NoMemo == [k \in {} |-> <<>>]

Called(fn, filter_valid, hit) == <<[fn |-> fn, filter_valid |-> filter_valid, hit |-> hit]>>

InitPins ==
    /\ board \in {[items |-> I, memo |-> NoMemo] : I \in Arenas}
    /\ trig = "a"
    /\ mode = "pins"
    /\ ws = FALSE
    /\ nstate = [n \in Nodes |-> "Idle"]
    /\ execOn = {}
    /\ errOn = {}
    /\ errStr = [n \in Nodes |-> NoMsg]
    /\ guard = NoGuard
    /\ lguard = NoGuard
    /\ frames = <<>>
    /\ ret = NoRet
    /\ result = NoRet
    /\ trace = <<>>

PureParentsForMemo ==
    LET r == pin_pure_parents_for_memo(board.items, trig, board.memo)
    IN  /\ board' = [board EXCEPT !.memo = r.memo]
        /\ result' = PinOk(r.v)
        /\ trace' = Called("pure_parents_for_memo", FALSE, r.hit)
        /\ UNCHANGED <<trig, mode, ws, nstate, execOn, errOn, errStr, guard, lguard,
                       frames, ret>>

GetConnectedExec ==
    \E filter_valid \in BOOLEAN :
        /\ result' = pin_get_connected_exec(board.items, trig, filter_valid)
        /\ trace' = Called("get_connected_exec", filter_valid, FALSE)
        /\ UNCHANGED <<board, trig, mode, ws, nstate, execOn, errOn, errStr, guard,
                       lguard, frames, ret>>

GetErrorHandledNodes ==
    /\ result' = pin_get_error_handled_nodes(board.items, trig)
    /\ trace' = Called("get_error_handled_nodes", FALSE, FALSE)
    /\ UNCHANGED <<board, trig, mode, ws, nstate, execOn, errOn, errStr, guard,
                   lguard, frames, ret>>

IsReady ==
    /\ result' = pin_is_ready(board.items, trig)
    /\ trace' = Called("is_ready", FALSE, FALSE)
    /\ UNCHANGED <<board, trig, mode, ws, nstate, execOn, errOn, errStr, guard,
                   lguard, frames, ret>>

GetConnected ==
    /\ result' = pin_get_connected(board.items, trig)
    /\ trace' = Called("get_connected", FALSE, FALSE)
    /\ UNCHANGED <<board, trig, mode, ws, nstate, execOn, errOn, errStr, guard,
                   lguard, frames, ret>>

GetDependencies ==
    /\ result' = pin_get_dependencies(board.items, trig)
    /\ trace' = Called("get_dependencies", FALSE, FALSE)
    /\ UNCHANGED <<board, trig, mode, ws, nstate, execOn, errOn, errStr, guard,
                   lguard, frames, ret>>

NextPins ==
    \/ PureParentsForMemo
    \/ GetConnectedExec
    \/ GetErrorHandledNodes
    \/ IsReady
    \/ GetConnected
    \/ GetDependencies

SpecPins == InitPins /\ [][NextPins]_vars

\* The last call was of fn.
LastCall(fn) == trace # <<>> /\ mode = "pins" /\ trace[1].fn = fn

\* The pins that can be reached from the edges of pin x: the pins its edge
\* list refers to and, through standalone pins, the pins their lists refer
\* to; a dropped pin is not there to be reached.
RECURSIVE ReachFrom(_, _, _)
ReachFrom(I, dir, S) ==
    LET edges(x) == IF dir = "up" THEN {o \in PinIds : <<"wire", o, x>> \in I}
                    ELSE {i \in PinIds : <<"wire", x, i>> \in I}
        more == {y \in PinIds : /\ upgrade(I, y)
                                /\ \E x \in S : PinTable[x].node = None /\ y \in edges(x)}
    IN  IF more \subseteq S THEN S ELSE ReachFrom(I, dir, S \cup more)

Reachable(I, dir, x) ==
    LET edges == IF dir = "up" THEN {o \in PinIds : <<"wire", o, x>> \in I}
                 ELSE {i \in PinIds : <<"wire", x, i>> \in I}
    IN  ReachFrom(I, dir, {y \in edges : upgrade(I, y)})

\* A sequence without repetition
NoRepeat(s) == \A i, j \in 1..Len(s) : s[i] = s[j] => i = j

(***************************************************************************)
(* Claims about the pin-level queries (specification SpecPins).            *)
(***************************************************************************)
\* The pure nodes owning a pin that is reachable from a non-execution input
\* pin of n through depends_on and standalone pins.
PureParentsOf(I, n) ==
    {m \in Nodes :
        /\ is_pure(m)
        /\ \E x \in Range(pins(I, n)) :
              /\ PinTable[x].pin_type = "Input" /\ ~PinTable[x].exec
              /\ \E y \in Reachable(I, "up", x) : PinTable[y].node = m}

\* C21: pure_parents_for_memo(N) returns exactly the pure nodes that own a
\* pin reachable from one of N's non-execution input pins over depends_on
\* through relay pins, each once (so a node reached only through an
\* execution input is not in the list), and a call that follows another
\* call for N, answered from the memo, returns the same list.
PureParentsExactAndMemoized ==
    /\ [](LastCall("pure_parents_for_memo") =>
            /\ Range(result.v) = PureParentsOf(board.items, trig)
            /\ NoRepeat(result.v))
    /\ [][(LastCall("pure_parents_for_memo") /\ LastCall("pure_parents_for_memo")')
            => (trace'[1].hit /\ result' = result)]_vars

\* A memoized call returned the one pure parent that is reached twice, once
\* through a relay pin, while another pure pin feeds an execution input only.
PureParentsExactAndMemoizedWitness ==
    /\ LastCall("pure_parents_for_memo")
    /\ trace[1].hit
    /\ result.v = <<"p">>
    /\ {<<"wire", "p_o", "r1">>, <<"wire", "r1", "a_in">>, <<"wire", "p_o2", "a_in">>}
         \subseteq board.items

\* The pins with an owning node that are reachable downstream of the
\* execution outputs of n (with filter_valid: of those holding true).
ExecReach(I, n, filter_valid) ==
    {y \in PinIds :
        /\ PinTable[y].node # None
        /\ \E x \in Range(pins(I, n)) :
              /\ PinTable[x].pin_type = "Output" /\ PinTable[x].exec
              /\ filter_valid => value(I, x) = "true"
              /\ y \in Reachable(I, "down", x)}

\* C22: get_connected_exec returns exactly one target per node that owns a
\* pin reachable from this node's (with filter_valid: active) exec output
\* pins over connected_to through relay pins, and the through_pins of a
\* target are exactly those pins of its node, each once.
ConnectedExecGroupsByNode ==
    LastCall("get_connected_exec") =>
        LET reach   == ExecReach(board.items, trig, trace[1].filter_valid)
            targets == result.v
        IN  /\ result.t = "ok"
            /\ {targets[i].node : i \in 1..Len(targets)}
                 = {PinTable[y].node : y \in reach}
            /\ \A i, j \in 1..Len(targets) : targets[i].node = targets[j].node => i = j
            /\ \A i \in 1..Len(targets) :
                  /\ Range(targets[i].through_pins)
                       = {y \in reach : PinTable[y].node = targets[i].node}
                  /\ NoRepeat(targets[i].through_pins)

\* One input of b is reached from two exec outputs, once through a relay
\* pin: b is one target with that pin once.
ConnectedExecGroupsByNodeWitness ==
    /\ LastCall("get_connected_exec")
    /\ {<<"wire", "a_out", "r2">>, <<"wire", "r2", "b_i">>, <<"wire", "a_err", "b_i">>}
         \subseteq board.items
    /\ result.v = <<[node |-> "b", through_pins |-> <<"b_i">>]>>

\* The nodes owning a pin reachable downstream of pin x.
NodesBelow(I, x) ==
    {PinTable[y].node : y \in {z \in Reachable(I, "down", x) : PinTable[z].node # None}}

\* C23: get_error_handled_nodes returns an error when the node has no pin
\* named auto_handle_error or when that pin's value is not true; otherwise
\* it returns each node reachable from the pin's connected_to edges through
\* relay pins, once.
ErrorHandledNodesOfActivePin ==
    LastCall("get_error_handled_nodes") =>
        LET I   == board.items
            pin == pin_get_pin_by_name(I, trig, "auto_handle_error")
        IN  IF pin.t = "err" \/ value(I, pin.v) # "true"
            THEN result.t = "err"
            ELSE /\ result.t = "ok"
                 /\ Range(result.v) = NodesBelow(I, pin.v)
                 /\ NoRepeat(result.v)

\* No pin of the arena has been dropped.
NoDroppedEdge(I) == \A it \in I : it[1] # "dead"

\* The same with no dropped pin in the arena.
ErrorHandledNodesWithoutDroppedPins ==
    NoDroppedEdge(board.items) => ErrorHandledNodesOfActivePin

\* The input pins of node n
InputsOf(I, n) == {x \in Range(pins(I, n)) : PinTable[x].pin_type = "Input"}

\* An input pin is satisfiable: it has an upstream producer or a default.
Satisfiable(I, x) == depends_on(I, x) # <<>> \/ default_value(I, x) # None

\* C24 as stated: is_ready returns true exactly when every input pin of the
\* node is satisfiable.
ReadyIffSatisfiable ==
    LastCall("is_ready") =>
        (result = PinOk(TRUE)
           <=> \A x \in InputsOf(board.items, trig) : Satisfiable(board.items, x))

\* C24 amended: is_ready returns true only if every input pin of the node
\* is satisfiable, every upstream of a non-execution input holds a value and
\* every execution input has an upstream that holds a value; satisfiable
\* alone is not enough.
ReadyOnlyIfSatisfiable ==
    (LastCall("is_ready") /\ result = PinOk(TRUE)) =>
        \A x \in InputsOf(board.items, trig) :
            /\ Satisfiable(board.items, x)
            /\ ~PinTable[x].exec =>
                  \A o \in Range(depends_on(board.items, x)) : value(board.items, o) # None
            /\ PinTable[x].exec =>
                  \E o \in Range(depends_on(board.items, x)) : value(board.items, o) # None

\* is_ready returned true for a node with a data input that has a default
\* only and an execution input fed by an output holding a value.
ReadyOnlyIfSatisfiableWitness ==
    /\ LastCall("is_ready")
    /\ result = PinOk(TRUE)
    /\ InputsOf(board.items, trig) = {"a_in", "a_ex"}
    /\ depends_on(board.items, "a_in") = <<>>

\* C25: is_ready treats an execution input as satisfied only if one of its
\* upstream exec outputs holds a truthy token, and a non-execution input
\* only if every referenced upstream holds a value: when is_ready returns
\* true, every input pin of the node is satisfied in that sense.
ReadyNeedsTruthyToken ==
    (LastCall("is_ready") /\ result = PinOk(TRUE)) =>
        \A x \in InputsOf(board.items, trig) :
            IF PinTable[x].exec
            THEN \E o \in Range(depends_on(board.items, x)) : value(board.items, o) = "true"
            ELSE \A o \in Range(depends_on(board.items, x)) : value(board.items, o) # None

\* The nodes owning a pin reachable from the pins of n of the given type.
NodesAround(I, n, dir) ==
    UNION {{PinTable[y].node : y \in {z \in Reachable(I, dir, x) : PinTable[z].node # None}} :
             x \in {p \in Range(pins(I, n)) :
                       PinTable[p].pin_type = IF dir = "up" THEN "Input" ELSE "Output"}}

\* C26: in every pin traversal an edge whose target pin no longer exists is
\* skipped and the traversal goes on with the remaining edges: no query
\* fails on a reference that does not upgrade, and get_connected and
\* get_dependencies return the nodes reachable over the remaining edges.
DroppedEdgesAreSkipped ==
    (trace # <<>> /\ mode = "pins") =>
        /\ result # PinErr("Failed to lock Pin")
        /\ LastCall("get_connected") =>
              Range(result.v) = NodesAround(board.items, trig, "down")
        /\ LastCall("get_dependencies") =>
              Range(result.v) = NodesAround(board.items, trig, "up")

\* Without a dropped pin the two queries return the reachable nodes.
ReachableNodesWithoutDroppedPins ==
    NoDroppedEdge(board.items) => DroppedEdgesAreSkipped

(***************************************************************************)
(* The name cache of a node (pin_name_cache) under concurrent callers of   *)
(* get_pin_by_name.  In the specification SpecCache the variable board     *)
(* holds the cache, frames the callers (one frame each: the statement the  *)
(* caller is at, the name it asks for, its local pins_by_name) and trace   *)
(* the calls that have returned.  The cache lock is held for the check,    *)
(* for the population and for the read, not in between.                    *)
(***************************************************************************)
\* The pins of the node in the order of pins.values(), and their names.
CachePins == <<"k1", "k2", "k3">>
CacheName == [k1 |-> "x", k2 |-> "x", k3 |-> "y"]
\* The names callers ask for; no pin is named "z".
AskedNames == {"x", "y", "z"}
Callers == {1, 2}
\* Calls a caller makes.
MaxCalls == 2

\* lines 302-314 of ensure_cache: every pin is pushed to the list of its name
pins_by_name ==
    [name \in {CacheName[k] : k \in Range(CachePins)} |->
        SelectSeq(CachePins, LAMBDA k : CacheName[k] = name)]

\* The name_cache handed to InternalNode::new: nothing, or lists made by the
\* host for some of the names, the pins of a name in any order.
InitialCaches ==
    {c \in UNION {[S -> {<<"k1", "k2">>, <<"k2", "k1">>, <<"k3">>}] : S \in SUBSET {"x", "y"}} :
        \A name \in DOMAIN c : Range(c[name]) = Range(pins_by_name[name])}

\* variant that is not the code's: cache.insert(pin_name, pins)
cache_insert(cache, local) ==
    [name \in DOMAIN cache \cup DOMAIN local |->
        IF name \in DOMAIN local THEN local[name] ELSE cache[name]]

\* lines 316-319 of ensure_cache: cache.entry(pin_name).or_insert(pins) for
\* every name of the local map
cache_or_insert(cache, local) ==
    [name \in DOMAIN cache \cup DOMAIN local |->
        IF name \in DOMAIN cache THEN cache[name] ELSE local[name]]

NoLocal == [name \in {} |-> <<>>]
IdleCaller == [pc |-> "idle", name |-> "", local |-> NoLocal, calls |-> 0, built |-> FALSE]

InitCache ==
    /\ board \in {[cache |-> c] : c \in InitialCaches}
    /\ trig = "a"
    /\ mode = "cache"
    /\ ws = FALSE
    /\ nstate = [n \in Nodes |-> "Idle"]
    /\ execOn = {}
    /\ errOn = {}
    /\ errStr = [n \in Nodes |-> NoMsg]
    /\ guard = NoGuard
    /\ lguard = NoGuard
    /\ frames = [c \in Callers |-> IdleCaller]
    /\ ret = NoRet
    /\ result = NoRet
    /\ trace = <<>>

\* a caller enters get_pin_by_name(name)
CallGetPinByName(c) ==
    /\ frames[c].pc = "idle"
    /\ frames[c].calls < MaxCalls
    /\ \E name \in AskedNames :
          frames' = [frames EXCEPT ![c] = [@ EXCEPT !.pc = "check", !.name = name,
                                                    !.built = FALSE]]
    /\ UNCHANGED <<board, trig, mode, ws, nstate, execOn, errOn, errStr, guard, lguard,
                   ret, result, trace>>

\* ensure_cache, lines 295-300: return when the cache has the name
EnsureCheck(c) ==
    /\ frames[c].pc = "check"
    /\ frames' = [frames EXCEPT ![c].pc =
                      IF frames[c].name \in DOMAIN board.cache THEN "get" ELSE "build"]
    /\ UNCHANGED <<board, trig, mode, ws, nstate, execOn, errOn, errStr, guard, lguard,
                   ret, result, trace>>

\* ensure_cache, lines 302-314: the local map is built without the cache lock
EnsureBuild(c) ==
    /\ frames[c].pc = "build"
    /\ frames' = [frames EXCEPT ![c] = [@ EXCEPT !.pc = "populate", !.local = pins_by_name,
                                                    !.built = TRUE]]
    /\ UNCHANGED <<board, trig, mode, ws, nstate, execOn, errOn, errStr, guard, lguard,
                   ret, result, trace>>

\* ensure_cache, lines 316-319: the local map goes into the cache
EnsurePopulate(c) ==
    /\ frames[c].pc = "populate"
    /\ board' = [board EXCEPT !.cache = cache_or_insert(@, frames[c].local)]
    /\ frames' = [frames EXCEPT ![c] = [@ EXCEPT !.pc = "get", !.local = NoLocal]]
    /\ UNCHANGED <<trig, mode, ws, nstate, execOn, errOn, errStr, guard, lguard,
                   ret, result, trace>>

\* get_pin_by_name, lines 328-336: the first pin of the cached list
GetFirst(c) ==
    LET name == frames[c].name
        r    == IF name \in DOMAIN board.cache /\ board.cache[name] # <<>>
                THEN PinOk(board.cache[name][1]) ELSE PinErr("Pin not found")
    IN  /\ frames[c].pc = "get"
        /\ result' = r
        /\ trace' = Append(trace, [caller |-> c, name |-> name, r |-> r,
                                   built |-> frames[c].built])
        /\ frames' = [frames EXCEPT ![c] = [@ EXCEPT !.pc = "idle", !.calls = @ + 1]]
        /\ UNCHANGED <<board, trig, mode, ws, nstate, execOn, errOn, errStr, guard,
                       lguard, ret>>

NextCache ==
    \E c \in Callers :
        \/ CallGetPinByName(c)
        \/ EnsureCheck(c)
        \/ EnsureBuild(c)
        \/ EnsurePopulate(c)
        \/ GetFirst(c)

SpecCache == InitCache /\ [][NextCache]_vars

\* C27: repeated and concurrent calls of get_pin_by_name(name) on the same
\* node all return the same pin object, and an entry of the name cache is
\* never replaced or changed, under any interleaving of ensure_cache calls.
CacheEntriesAreStable ==
    /\ [](mode = "cache" =>
            \A i, j \in 1..Len(trace) :
                trace[i].name = trace[j].name => trace[i].r = trace[j].r)
    /\ [][mode = "cache" =>
            \A name \in DOMAIN board.cache :
                name \in DOMAIN board'.cache /\ board'.cache[name] = board.cache[name]]_vars

\* Two callers asked for the same name, both found it missing and both built
\* and populated (double populate); both got the same pin.
CacheEntriesAreStableWitness ==
    /\ mode = "cache"
    /\ \E i, j \in 1..Len(trace) :
          /\ trace[i].caller # trace[j].caller
          /\ trace[i].name = "x" /\ trace[j].name = "x"
          /\ trace[i].built /\ trace[j].built
          /\ trace[i].r.t = "ok" /\ trace[i].r = trace[j].r

\* The sub-contexts made for successors and those attached to the context.
SubsCreated  == {i \in Idx : trace[i].ev = "sub"}
SubsAttached == {i \in Idx : trace[i].ev = "push"}

\* C28: on every return path of trigger and trigger_with_dependencies each
\* sub-context that was created for a node has been attached to its parent
\* context (so the returned trace tree holds the log of the failing node).
CreatedSubContextsAreAttached ==
    (Done /\ mode \in {"trigger", "twd"}) =>
        \A i \in SubsCreated :
            \E j \in SubsAttached : j > i /\ trace[j].node = trace[i].node

\* Runs on which the error chain of no successor fails attach every
\* sub-context.
AttachedUnlessChainFails ==
    (Done /\ mode \in {"trigger", "twd"}
       /\ ~\E k \in Idx : trace[k].ev = "he_err" /\ trace[k].role = "succ") =>
        \A i \in SubsCreated :
            \E j \in SubsAttached : j > i /\ trace[j].node = trace[i].node

(***************************************************************************)
(* Pin and its encodings.  In the specification SpecSerde the variable     *)
(* board holds a Pin, ret the encoded form and result the decoded Pin.     *)
(***************************************************************************)
\* pin ids other pins are known by, in the order of a BTreeSet
EdgeIds == <<"x", "y">>
\* Values of Pin::index (u16) that are tried.
Indexes == {0, 1, 65535}

\* An Option is a sequence: <<>> for None, <<v>> for Some(v).
PinOptionsSet ==
    {<<>>, <<[sensitive |-> <<TRUE>>, valid_values |-> <<<<"v">>>>, range |-> <<>>,
              step |-> <<>>, enforce_schema |-> <<>>,
              enforce_generic_value_type |-> <<>>]>>}

\* struct Pin
PinRecords ==
    [id : {"123"}, name : {"name"}, friendly_name : {"friendly_name"},
     description : {"description"},
     pin_type : {"Input", "Output"},
     data_type : {"Execution", "Boolean"},
     schema : {<<>>, <<"schema">>},
     value_type : {"Array", "Normal", "HashMap", "HashSet"},
     depends_on : SUBSET Range(EdgeIds),
     connected_to : SUBSET {"x"},
     default_value : {<<>>, << <<>> >>, << <<1>> >>},
     index : Indexes,
     options : PinOptionsSet,
     value : {<<>>, <<"Null">>}]

\* The fields that derive(Serialize, Deserialize) writes and reads: all but
\* the one marked #[serde(skip)].
SerdeFields ==
    {"id", "name", "friendly_name", "description", "pin_type", "data_type", "schema",
     "value_type", "depends_on", "connected_to", "default_value", "index", "options"}

\* variant that is not the code's: default_value is skipped as well
serialize_without_default(pin) == [f \in SerdeFields \ {"default_value"} |-> pin[f]]

\* Serialize for Pin: an object with one member per written field
serialize(pin) == [f \in SerdeFields |-> pin[f]]

\* Deserialize for Pin: every read field from its member (an Option without
\* member is None), the skipped field from Default
deserialize(obj) ==
    [f \in SerdeFields \cup {"value"} |->
        IF f \in SerdeFields /\ f \in DOMAIN obj THEN obj[f] ELSE <<>>]

\* The numbers of the enum variants in a message
EnumNo == [Input |-> 0, Output |-> 1, Execution |-> 0, Boolean |-> 1,
           Array |-> 0, Normal |-> 1, HashMap |-> 2, HashSet |-> 3]
EnumOf(kind, no) ==
    CHOOSE v \in (CASE kind = "pin_type" -> {"Input", "Output"}
                    [] kind = "data_type" -> {"Execution", "Boolean"}
                    [] OTHER -> {"Array", "Normal", "HashMap", "HashSet"}) : EnumNo[v] = no

\* Pin::to_proto: enums as numbers, the edge sets as repeated fields, the
\* index widened to u32 (the number is kept); the value slot has no field
to_proto(pin) ==
    [id |-> pin.id, name |-> pin.name, friendly_name |-> pin.friendly_name,
     description |-> pin.description,
     pin_type |-> EnumNo[pin.pin_type], data_type |-> EnumNo[pin.data_type],
     schema |-> pin.schema, value_type |-> EnumNo[pin.value_type],
     depends_on |-> SelectSeq(EdgeIds, LAMBDA e : e \in pin.depends_on),
     connected_to |-> SelectSeq(EdgeIds, LAMBDA e : e \in pin.connected_to),
     default_value |-> pin.default_value,
     index |-> pin.index,
     options |-> pin.options]

\* Pin::from_proto: the inverse; the value slot is None
from_proto(msg) ==
    [id |-> msg.id, name |-> msg.name, friendly_name |-> msg.friendly_name,
     description |-> msg.description,
     pin_type |-> EnumOf("pin_type", msg.pin_type),
     data_type |-> EnumOf("data_type", msg.data_type),
     schema |-> msg.schema, value_type |-> EnumOf("value_type", msg.value_type),
     depends_on |-> Range(msg.depends_on),
     connected_to |-> Range(msg.connected_to),
     default_value |-> msg.default_value,
     index |-> msg.index % 65536,
     options |-> msg.options,
     value |-> <<>>]

Encoded(form, msg) == [form |-> form, msg |-> msg]

InitSerde ==
    /\ board \in PinRecords
    /\ trig = "a"
    /\ mode = "serde"
    /\ ws = FALSE
    /\ nstate = [n \in Nodes |-> "Idle"]
    /\ execOn = {}
    /\ errOn = {}
    /\ errStr = [n \in Nodes |-> NoMsg]
    /\ guard = NoGuard
    /\ lguard = NoGuard
    /\ frames = <<>>
    /\ ret = NoRet
    /\ result = NoRet
    /\ trace = <<>>

\* pin.to_proto().encode(&mut buf)
EncodeProto ==
    /\ ret' = Encoded("proto", to_proto(board))
    /\ result' = NoRet
    /\ UNCHANGED <<board, trig, mode, ws, nstate, execOn, errOn, errStr, guard, lguard,
                   frames, trace>>

\* Pin::from_proto(proto::Pin::decode(&buf[..]))
DecodeProto ==
    /\ ret # NoRet /\ ret.form = "proto"
    /\ result' = from_proto(ret.msg)
    /\ UNCHANGED <<board, trig, mode, ws, nstate, execOn, errOn, errStr, guard, lguard,
                   frames, ret, trace>>

\* serde: Serialize
SerdeEncode ==
    /\ ret' = Encoded("serde", serialize(board))
    /\ result' = NoRet
    /\ UNCHANGED <<board, trig, mode, ws, nstate, execOn, errOn, errStr, guard, lguard,
                   frames, trace>>

\* serde: Deserialize
SerdeDecode ==
    /\ ret # NoRet /\ ret.form = "serde"
    /\ result' = deserialize(ret.msg)
    /\ UNCHANGED <<board, trig, mode, ws, nstate, execOn, errOn, errStr, guard, lguard,
                   frames, ret, trace>>

NextSerde == EncodeProto \/ DecodeProto \/ SerdeEncode \/ SerdeDecode

SpecSerde == InitSerde /\ [][NextSerde]_vars

NoSuccessorsUnlessAsked ==
    (Done /\ mode \in {"trigger", "twd"} /\ ~ws /\ result = OkRet) =>
        /\ \A i \in Idx :
              /\ IsStart(i) => trace[i].node \in {trig} \cup Ancestors(trig)
              /\ trace[i].role # "succ"
              /\ trace[i].ev # "sub"
        /\ \A m \in Nodes \ ({trig} \cup Ancestors(trig)) : nstate[m] = "Idle"

\* The triggered node ran after a pure parent, left an exec output to b
\* active and returned Ok; b was not touched.
NoSuccessorsUnlessAskedWitness ==
    /\ Done /\ mode = "trigger" /\ ~ws /\ result = OkRet
    /\ <<"exec", "a", "b">> \in execOn
    /\ <<"data", "a", "p">> \in board
    /\ \E i \in Idx : trace[i].ev = "end_ok" /\ trace[i].node = "a"
    /\ nstate["b"] = "Idle"

(***************************************************************************)
(* Claims about the dependency walk, the guard and the sub-contexts.       *)
(***************************************************************************)
\* A dependency walk is under way: a frame of the walker is on the call
\* chain (the walker itself or the runner it called is executing).
InWalk ==
    mode \in {"trigger", "twd"} /\ \E k \in 1..Len(frames) : frames[k].fn = "deps"

\* C31: every node whose logic the dependency walker runs is pure, and a
\* dependency walk leaves the value of every exec output pin unchanged.
WalkRunsPureNodesOnly ==
    /\ [](mode \in {"trigger", "twd"} =>
            \A i \in Idx : (IsStart(i) /\ trace[i].role = "dep") => is_pure(trace[i].node))
    /\ [][InWalk => (execOn' = execOn /\ errOn' = errOn)]_vars

\* A successor's pure parent, which also reads from an impure node, ran in
\* the walk while exec outputs were active.
WalkRunsPureNodesOnlyWitness ==
    /\ mode \in {"trigger", "twd"} /\ Done
    /\ execOn # {}
    /\ \E i \in Idx : /\ trace[i].ev = "end_ok" /\ trace[i].role = "dep"
                      /\ \E m \in Impure : <<"data", trace[i].node, m>> \in board
                      /\ \E j \in 1..(i - 1) : trace[j].ev = "end_ok" /\ trace[j].out # {}

\* the dependency walk of the triggered node has just ended on a cycle
SelfWalkEndedOnCycle ==
    /\ mode \in {"trigger", "twd"} /\ trace # <<>>
    /\ trace[Len(trace)].ev = "cycle" /\ trace[Len(trace)].role = "self"

\* C32: when the dependency walk of a trigger ends because a cycle was
\* detected, no node has reached state Success in that trigger.
NoSuccessBeforeCycle ==
    SelfWalkEndedOnCycle => \A n \in Nodes : nstate[n] # "Success"

\* every cycle the walker reported is a cycle of the pure-parent relation
\* reachable from the walk's node
ReportedCyclesAreCycles ==
    mode \in {"trigger", "twd"} =>
        \A i \in Idx : trace[i].ev = "cycle" => HasCycle(trace[i].node)

\* a dependency walk is about to return false because a dependency failed
WalkFailsOnLogic == At("deps", "ran") /\ ret.t = "err"

\* C33 as stated: the walker (both forms) reports a cycle if and only if the
\* pure-parent relation reachable from its node contains a cycle.
CycleReportedIffCyclic ==
    /\ ReportedCyclesAreCycles
    /\ (mode \in {"trigger", "twd"} /\ (WalkSucceeds \/ WalkFailsOnLogic))
          => ~HasCycle(Top.node)

\* C33 amended: the walker reports a cycle only if the reachable relation
\* contains one (never on an acyclic graph with shared ancestors, whatever
\* the order of the parents), and on a relation with a cycle it never
\* returns true: it reports the cycle unless a dependency's logic fails first.
CycleReportedOnlyIfCyclic ==
    /\ ReportedCyclesAreCycles
    /\ (mode \in {"trigger", "twd"} /\ WalkSucceeds) => ~HasCycle(Top.node)

\* C33 witness: the walk of the map form for a pure node, over a relation
\* with a cycle, gives up on the failure of a dependency.
CycleReportedOnlyIfCyclicWitness ==
    /\ mode \in {"trigger", "twd"} /\ WalkFailsOnLogic /\ HasCycle(Top.node)
    /\ Top.form = "map" /\ is_pure(Top.node)

\* the logic of a dependency failed at i during a dependency walk
DependencyFailedAt(i) == trace[i].ev = "end_err" /\ trace[i].role = "dep"

\* the walk gave up right after the failure at i: nothing was run in between
WalkStopsAt(i) ==
    /\ i + 1 < Len(trace)
    /\ trace[i + 1] = Attach(trace[i].node, "dep")
    /\ trace[i + 2].ev = "deps_fail"

\* handle_error is never entered for the dependency that failed at i
NotRoutedAt(i) ==
    \A k \in Idx : ~(k > i /\ trace[k].ev = "he_enter" /\ trace[k].node = trace[i].node)

\* the walk that failed at i was the triggered node's own, and the logic of
\* the triggered node is run in the same call
StartRunsAfter(i) ==
    /\ trace[i + 2].role = "self"
    /\ \E k \in Idx : IsStart(k) /\ trace[k].node = trig

\* the first two parts of C34: a failed dependency ends the walk at once and
\* is not routed to error handlers of its own
FailedDependencyEndsWalk ==
    (Done /\ mode \in {"trigger", "twd"}) =>
        \A i \in Idx : DependencyFailedAt(i) => (WalkStopsAt(i) /\ NotRoutedAt(i))

\* C34: when a dependency's logic fails during the dependency walk, the walk
\* returns false without running any further dependency, the failed
\* dependency's own error handlers are not started, and the starting node's
\* own logic is never run in that trigger.
FailedDependencyStopsTrigger ==
    (Done /\ mode \in {"trigger", "twd"}) =>
        \A i \in Idx :
            DependencyFailedAt(i) =>
                (WalkStopsAt(i) /\ NotRoutedAt(i) /\ ~StartRunsAfter(i))

\* the sub-contexts attached by the error chain, and by the successor loop
ChainAttached == {i \in Idx : trace[i].ev = "attach" /\ trace[i].role \in {"handler", "hsucc"}}
LoopAttached  == {i \in Idx : trace[i].ev = "push"}

\* the role in which the node of the sub-context attached at k was run
RunRole(k) == IF trace[k].ev = "push" THEN "succ" ELSE trace[k].role

\* the logic calls of the sub-context attached at k began at these positions
RunsOf(k) ==
    {j \in 1..(k - 1) : IsStart(j) /\ trace[j].node = trace[k].node
                                   /\ trace[j].role = RunRole(k)}

\* the position at which the logic of the sub-context attached at k began
RunOf(k) == CHOOSE j \in RunsOf(k) : \A l \in RunsOf(k) : l <= j

\* j and k belong to one call of handle_error (one parent buffer)
SameChain(j, k) == \A l \in j..k : trace[l].ev # "he_enter"

\* the sub-contexts attached at the positions of S are in the order in which
\* their logic ran
InRunOrder(S) ==
    \A j, k \in S :
        (j < k /\ RunsOf(j) # {} /\ RunsOf(k) # {}) => RunOf(j) < RunOf(k)

\* a dependency's sub-context is attached as soon as its logic has returned,
\* and the successor loop attaches in the order of the logic calls
WalksAttachInRunOrder ==
    mode \in {"trigger", "twd"} =>
        /\ \A k \in Idx :
              (trace[k].ev = "attach" /\ trace[k].role = "dep") =>
                  (k > 1 /\ IsEnd(k - 1) /\ trace[k - 1].node = trace[k].node)
        /\ InRunOrder(LoopAttached)

\* C35: sub-contexts are appended to the parent context's buffer in the
\* order in which their nodes' logic ran, in the dependency walk, in the
\* successor walk and in the error chain alike (a handler's sub-context
\* precedes those of the handler's exec successors).
SubContextsInRunOrder ==
    /\ WalksAttachInRunOrder
    /\ mode \in {"trigger", "twd"} =>
          \A j, k \in ChainAttached :
              (j < k /\ SameChain(j, k) /\ RunsOf(j) # {} /\ RunsOf(k) # {})
                  => RunOf(j) < RunOf(k)

(***************************************************************************)
(* MakeBoxNode (catalog/src/image/annotate/make_box.rs): the pins of the   *)
(* node under on_update.  The node is the record of its box pins (a pin is *)
(* <<>> when the node has none of that name, else <<data type>>) and of    *)
(* the default value of its pin `definition` (<<>> for none).  Node,       *)
(* add_input_pin and remove_pin are declared outside this source tree.     *)
(***************************************************************************)
BoxPinNames == {"x1", "y1", "x2", "y2", "w", "h"}
BoxTypes == {"Float", "Integer"}
\* the values an editor can leave in the default value of `definition`
BoxDefinitions == {<<>>, <<"xyxy">>, <<"x1y1wh">>, <<"polygon">>}
MaxUpdates == 4

\* Node::add_input_pin: the node gets a pin of that name and data type
add_input_pin(ps, name, type) == [ps EXCEPT ![name] = <<type>>]

\* node::remove_pin(node, pin): the pin, if there is one, leaves the node
remove_pin(ps, name) == [ps EXCEPT ![name] = <<>>]

\* MakeBoxNode::get_node, lines 45-70
get_node ==
    [definition |-> <<"xyxy">>,
     pins |-> add_input_pin(add_input_pin(add_input_pin(add_input_pin(
                  [n \in BoxPinNames |-> <<>>],
                  "x1", "Float"), "y1", "Float"), "x2", "Float"), "y2", "Float")]

\* lines 153-158 and 163-168: the pin is added when the node has none
add_if_none(ps, was, name, type) ==
    IF was[name] = <<>> THEN add_input_pin(ps, name, type) ELSE ps

\* MakeBoxNode::on_update, lines 135-172
on_update(node) ==
    LET definition == IF node.definition = <<>> THEN "" ELSE node.definition[1]
        was == node.pins
    IN  IF definition = "xyxy"
        THEN [node EXCEPT !.pins =
                 add_if_none(add_if_none(remove_pin(remove_pin(was, "w"), "h"),
                                         was, "x2", "Integer"), was, "y2", "Integer")]
        ELSE IF definition = "x1y1wh"
        THEN [node EXCEPT !.pins =
                 add_if_none(add_if_none(remove_pin(remove_pin(was, "x2"), "y2"),
                                         was, "w", "Integer"), was, "h", "Integer")]
        ELSE node

InitBox ==
    /\ board = get_node
    /\ trig = "a"
    /\ mode = "box"
    /\ ws = FALSE
    /\ nstate = [n \in Nodes |-> "Idle"]
    /\ execOn = {}
    /\ errOn = {}
    /\ errStr = [n \in Nodes |-> NoMsg]
    /\ guard = NoGuard
    /\ lguard = NoGuard
    /\ frames = <<>>
    /\ ret = NoRet
    /\ result = NoRet
    /\ trace = <<get_node>>

\* the editor changes the default value of the pin `definition`
SetDefinition ==
    /\ \E d \in BoxDefinitions \ {board.definition} :
          board' = [board EXCEPT !.definition = d]
    /\ UNCHANGED <<trig, mode, ws, nstate, execOn, errOn, errStr, guard, lguard,
                   frames, ret, result, trace>>

\* the editor calls on_update; trace keeps the node after every call
OnUpdate ==
    /\ Len(trace) <= MaxUpdates
    /\ board' = on_update(board)
    /\ trace' = Append(trace, board')
    /\ UNCHANGED <<trig, mode, ws, nstate, execOn, errOn, errStr, guard, lguard,
                   frames, ret, result>>

NextBox == SetDefinition \/ OnUpdate

SpecBox == InitBox /\ [][NextBox]_vars

\* at i the node is as get_node declares it, the next update switched it to
\* x1y1wh and the one after back to xyxy
BoxRoundTripAt(i) ==
    /\ i + 2 <= Len(trace)
    /\ trace[i] = get_node
    /\ trace[i + 1].definition = <<"x1y1wh">>
    /\ trace[i + 2].definition = <<"xyxy">>

\* C36: switching the definition from xyxy to x1y1wh and back to xyxy leaves
\* the node with pins x2 and y2 of the data type they were declared with in
\* get_node and without pins w and h.
BoxUpdateRoundTrip ==
    mode = "box" =>
        \A i \in DOMAIN trace :
            BoxRoundTripAt(i) =>
                /\ trace[i + 2].pins["x2"] = get_node.pins["x2"]
                /\ trace[i + 2].pins["y2"] = get_node.pins["y2"]
                /\ trace[i + 2].pins["w"] = <<>>
                /\ trace[i + 2].pins["h"] = <<>>

\* the part of C36 that holds: after the round trip the node has pins x2 and
\* y2 and has no pins w and h
BoxUpdateRestoresPinNames ==
    mode = "box" =>
        \A i \in DOMAIN trace :
            BoxRoundTripAt(i) =>
                /\ trace[i + 2].pins["x2"] # <<>> /\ trace[i + 2].pins["y2"] # <<>>
                /\ trace[i + 2].pins["w"] = <<>> /\ trace[i + 2].pins["h"] = <<>>

(***************************************************************************)
(* Termination.  trigger and trigger_with_dependencies are one async task: *)
(* the executor keeps polling it, every await in it is on the engine's own *)
(* code or on a node's logic, and a logic call returns (RunLogic is always *)
(* enabled at its position).  So a step that can be taken is taken: weak   *)
(* fairness of Next.                                                       *)
(***************************************************************************)
SpecLive == Init /\ [][Next]_vars /\ WF_vars(Next)

NoNodeLeftRunning ==
    (Done /\ mode \in {"trigger", "twd"}) => \A n \in Nodes : nstate[n] # "Running"

(***************************************************************************)
(* The entry points called with a guard the caller already filled (a batch *)
(* carries one guard across its calls).  A node whose id the guard holds   *)
(* may have run earlier in the batch: its exec output may carry the token  *)
(* of that run.  The first entry of trace keeps the ids that were passed.  *)
(***************************************************************************)
MaxGuardedEdges == 2

\* the exec outputs of n, active since an earlier run of n
LeftActive(n) == {e \in board : e[1] = "exec" /\ e[2] = n}

GuardsPassed == {NoGuard} \cup {[some |-> TRUE, ids |-> G] : G \in SUBSET Nodes}

InitGuarded ==
    /\ trig \in Triggered
    /\ board \in BoardsUpTo(trig, MaxGuardedEdges)
    /\ mode \in {"trigger", "twd"}
    /\ ws \in BOOLEAN
    /\ guard \in GuardsPassed
    /\ execOn \in {{}} \cup {LeftActive(trig) : n \in {trig} \cap guard.ids}
    /\ nstate = [n \in Nodes |-> IF n = trig /\ execOn # {} THEN "Success" ELSE "Idle"]
    /\ errOn = {}
    /\ errStr = [n \in Nodes |-> NoMsg]
    /\ lguard = NoGuard
    /\ frames = <<IF mode = "trigger" THEN TrFrame(trig) ELSE TwdFrame(trig)>>
    /\ ret = NoRet
    /\ result = NoRet
    /\ trace = <<[Event("call", trig, "self", NoRet) EXCEPT !.out = guard.ids]>>

SpecGuarded == InitGuarded /\ [][Next]_vars

\* the entry point was called with a guard that holds the triggered node's id
CalledGuarded == mode \in {"trigger", "twd"} /\ trace # <<>> /\ trig \in trace[1].out

\* C39: if the triggered node's id is already in the recursion guard passed
\* in, trigger and trigger_with_dependencies both run no node's logic at all:
\* the node is skipped, its dependencies are not run and its exec successors
\* are not walked.
GuardedTriggerRunsNothing ==
    CalledGuarded =>
        \A i \in Idx : ~IsStart(i) /\ trace[i].ev # "sub"

\* the part of C39 that holds: the logic of the triggered node itself is not
\* run, and trigger_with_dependencies runs nothing at all
GuardedNodeIsSkipped ==
    CalledGuarded =>
        \A i \in Idx :
            /\ ~(IsStart(i) /\ trace[i].node = trig /\ trace[i].role = "self")
            /\ mode = "twd" => (~IsStart(i) /\ trace[i].ev # "sub")

\* no exec successor gets a sub-context when the call was guarded
GuardedTriggerWalksNoSuccessor ==
    CalledGuarded => \A i \in Idx : trace[i].ev # "sub"

(***************************************************************************)
(* Pin locks.  The pin-reading operations of InternalNode as sequences of  *)
(* lock steps over a pin arena: `pin.lock().await` requests the lock of    *)
(* the InternalPin, a guard that goes out of scope or is dropped gives it  *)
(* back.  The mutex is not re-entrant: a request for a lock the operation  *)
(* itself holds never completes.  ws is filter_valid; trace keeps every    *)
(* request with the locks held when it was made.                           *)
(***************************************************************************)
MaxLockItems == 2

LockArenas == {I \in ArenasUpTo(MaxLockItems) : OneValue(I)}

LockOps == {"get_connected_exec", "get_error_handled_nodes", "is_ready"}

LockFrame(op) ==
    [op |-> op, pc |-> "start", todo |-> <<>>, cur |-> None, held |-> {},
     stack |-> <<>>, visited |-> {}, valid |-> FALSE]

Req(x, held) == [ev |-> "request", pin |-> x, held |-> held]

LockTop == frames[1]
LockAt(ops, pc) == mode = "locks" /\ frames # <<>> /\ LockTop.op \in ops /\ LockTop.pc = pc

LockGoto(f) == frames' = <<f>> /\ UNCHANGED <<ret, result>>
LockReturn(r) == frames' = <<>> /\ ret' = r /\ result' = r

\* evaluate_pin_value(pin) reads the pin through its mutex: it requests the
\* lock of the pin it is given (and has given it back when it returns)
EvalRequest(f) == Req(f.cur, f.held)

InitLocks ==
    /\ board \in LockArenas
    /\ trig = "a"
    /\ mode = "locks"
    /\ ws \in BOOLEAN
    /\ nstate = [n \in Nodes |-> "Idle"]
    /\ execOn = {}
    /\ errOn = {}
    /\ errStr = [n \in Nodes |-> NoMsg]
    /\ guard = NoGuard
    /\ lguard = NoGuard
    /\ frames \in {<<LockFrame(op)>> : op \in LockOps}
    /\ ret = NoRet
    /\ result = NoRet
    /\ trace = <<>>

\* the operation begins: the pin loop over self.pins.values(), or (line 569)
\* get_pin_by_name("auto_handle_error")
LkStart ==
    /\ mode = "locks" /\ frames # <<>> /\ LockTop.pc = "start"
    /\ IF LockTop.op = "get_error_handled_nodes"
       THEN IF "a_err" \in Range(pins(board, trig))
            THEN LockGoto([LockTop EXCEPT !.pc = "eval", !.cur = "a_err"])
            ELSE LockReturn(PinErr("Pin not found"))
       ELSE LockGoto([LockTop EXCEPT !.pc = "pin", !.todo = pins(board, trig)])
    /\ UNCHANGED <<board, trig, mode, ws, nstate, execOn, errOn, errStr, guard,
                   lguard, trace>>

\* lines 498-499 and 378-379: the next pin of the loop is locked
LkPin ==
    /\ LockAt({"get_connected_exec", "is_ready"}, "pin")
    /\ IF LockTop.todo = <<>>
       THEN /\ LockReturn(PinOk("done"))
            /\ UNCHANGED trace
       ELSE LET x == Head(LockTop.todo)
            IN  /\ trace' = Append(trace, Req(x, LockTop.held))
                /\ LockGoto([LockTop EXCEPT !.pc = "meta", !.cur = x,
                                            !.held = @ \cup {x}])
    /\ UNCHANGED <<board, trig, mode, ws, nstate, execOn, errOn, errStr, guard, lguard>>

\* lines 500-512: get_connected_exec looks at the pin's type; only `meta` is
\* dropped before the token is evaluated.  Lines 380-396: is_ready looks at
\* the pin and drops both guards before it goes upstream.
LkMeta ==
    /\ LockAt({"get_connected_exec", "is_ready"}, "meta")
    /\ LET x    == LockTop.cur
           next == [LockTop EXCEPT !.pc = "pin", !.todo = Tail(@), !.cur = None,
                                   !.held = @ \ {x}]
       IN  IF LockTop.op = "get_connected_exec"
           THEN IF ~(PinTable[x].pin_type = "Output" /\ PinTable[x].exec)
                THEN LockGoto(next)
                ELSE LockGoto([LockTop EXCEPT !.pc = IF ws THEN "eval" ELSE "seeds"])
           ELSE IF PinTable[x].pin_type # "Input"
                THEN LockGoto(next)
                ELSE IF depends_on(board, x) = <<>> /\ default_value(board, x) = None
                THEN LockReturn(PinOk("false"))
                ELSE LockGoto([LockTop EXCEPT !.pc = "walk", !.held = @ \ {x},
                                              !.stack = depends_on(board, x),
                                              !.valid = FALSE])
    /\ UNCHANGED <<board, trig, mode, ws, nstate, execOn, errOn, errStr, guard,
                   lguard, trace>>

\* lines 506-511 and 570-577: the pin's token is evaluated.  When the
\* operation holds the pin's lock the request never completes.
LkEval ==
    /\ LockAt({"get_connected_exec", "get_error_handled_nodes"}, "eval")
    /\ trace' = Append(trace, EvalRequest(LockTop))
    /\ LET x      == LockTop.cur
           active == evaluate_pin_value(board, x) = PinOk("true")
       IN  IF x \in LockTop.held
           THEN LockGoto([LockTop EXCEPT !.pc = "blocked"])
           ELSE IF LockTop.op = "get_connected_exec"
           THEN IF active
                THEN LockGoto([LockTop EXCEPT !.pc = "seeds"])
                ELSE LockGoto([LockTop EXCEPT !.pc = "pin", !.todo = Tail(@),
                                              !.cur = None, !.held = @ \ {x}])
           ELSE IF active
                THEN LockGoto([LockTop EXCEPT !.pc = "lockpin"])
                ELSE LockReturn(PinErr("Error Pin not active"))
    /\ UNCHANGED <<board, trig, mode, ws, nstate, execOn, errOn, errStr, guard, lguard>>

\* lines 579-587: get_error_handled_nodes locks the pin after the evaluation
LkLockPin ==
    /\ LockAt({"get_error_handled_nodes"}, "lockpin")
    /\ trace' = Append(trace, Req(LockTop.cur, LockTop.held))
    /\ LockGoto([LockTop EXCEPT !.pc = "seeds", !.held = @ \cup {LockTop.cur}])
    /\ UNCHANGED <<board, trig, mode, ws, nstate, execOn, errOn, errStr, guard, lguard>>

\* lines 513-518 and 589-590: the seeds are cloned and the pin's lock is
\* given back
LkSeeds ==
    /\ LockAt({"get_connected_exec", "get_error_handled_nodes"}, "seeds")
    /\ LockGoto([LockTop EXCEPT !.pc = "walk", !.held = @ \ {LockTop.cur},
                                !.stack = connected_to(board, LockTop.cur),
                                !.visited = {}])
    /\ UNCHANGED <<board, trig, mode, ws, nstate, execOn, errOn, errStr, guard,
                   lguard, trace>>

\* lines 520-551, 600-625 and 397-412: a pin is popped, locked for the time
\* it is read and given back
LkWalk ==
    /\ LockAt(LockOps, "walk")
    /\ LET f    == LockTop
           over == IF f.op = "get_error_handled_nodes" THEN LockReturn(PinOk("done"))
                   ELSE IF f.op = "is_ready" /\ PinTable[f.cur].exec /\ ~f.valid
                   THEN LockReturn(PinOk("false"))
                   ELSE LockGoto([f EXCEPT !.pc = "pin", !.todo = Tail(@), !.cur = None])
       IN  IF f.stack = <<>>
           THEN over /\ UNCHANGED trace
           ELSE LET y    == Last(f.stack)
                    rest == Butlast(f.stack)
                IN  IF f.op = "is_ready"
                    THEN LET z == Head(f.stack)
                         IN  IF ~upgrade(board, z)
                             THEN LockReturn(PinErr("Failed to lock Pin")) /\ UNCHANGED trace
                             ELSE /\ trace' = Append(trace, Req(z, f.held))
                                  /\ IF value(board, z) = None /\ ~PinTable[f.cur].exec
                                     THEN LockReturn(PinOk("false"))
                                     ELSE LockGoto([f EXCEPT !.stack = Tail(@),
                                              !.valid = @ \/ value(board, z) # None])
                    ELSE IF ~upgrade(board, y) \/ y \in f.visited
                    THEN LockGoto([f EXCEPT !.stack = rest]) /\ UNCHANGED trace
                    ELSE /\ trace' = Append(trace, Req(y, f.held))
                         /\ LockGoto([f EXCEPT !.visited = @ \cup {y},
                                  !.stack = IF PinTable[y].node = None
                                            THEN rest \o connected_to(board, y)
                                            ELSE rest])
    /\ UNCHANGED <<board, trig, mode, ws, nstate, execOn, errOn, errStr, guard, lguard>>

NextLocks == LkStart \/ LkPin \/ LkMeta \/ LkEval \/ LkLockPin \/ LkSeeds \/ LkWalk

SpecLocks == InitLocks /\ [][NextLocks]_vars

\* the requests made with no pin lock held
FreeRequests == {i \in DOMAIN trace : trace[i].held = {}}

\* the operation waits for a lock it holds itself
SelfDeadlock == mode = "locks" /\ frames # <<>> /\ LockTop.pc = "blocked"

\* C40: no engine operation requests the lock of a pin while it holds the
\* lock of that same pin or of another pin; get_connected_exec with
\* filter_valid does not hold an exec output pin's lock while the pin's token
\* is evaluated, so pin-lock acquisition cannot deadlock.
NoNestedPinLocks ==
    mode = "locks" => (FreeRequests = DOMAIN trace /\ ~SelfDeadlock)

\* the part of C40 that holds: no operation asks for a second pin's lock
\* while it holds one, and get_error_handled_nodes, is_ready and
\* get_connected_exec without filter ask for a lock only when they hold none
NoLockOfAnotherPin ==
    mode = "locks" =>
        /\ \A i \in DOMAIN trace : trace[i].held \subseteq {trace[i].pin}
        /\ (frames # <<>> /\ ~(LockTop.op = "get_connected_exec" /\ ws))
              => (FreeRequests = DOMAIN trace /\ ~SelfDeadlock)

====
